---- MODULE Spec2Model ----
(***************************************************************************)
(* A model of core/motan.go of motan-go: the extension factory with its    *)
(* registry singleton cache, the lazily created attachment map of requests *)
(* and responses, request cloning, lazy argument deserialization, the      *)
(* terminal sentinel filters, and the FilterEndPoint decorator.            *)
(*                                                                         *)
(* The module holds several independent sub-systems.  Each has its own     *)
(* group of variables, its own initial predicate and actions, and its own  *)
(* specification; a specification keeps the other groups at rest.          *)
(***************************************************************************)
EXTENDS Integers, Sequences, FiniteSets, TLC

VARIABLES
    \* ---- DefaultExtensionFactory (registry role) ----
    registryFactories,  \* d.registryFactories: protocol -> constructor kind
    registries,         \* d.registries: identity -> [exist, registry]
    newRegistryLock,    \* d.newRegistryLock: holder (0 = free)
    mapWriting,         \* caller in the middle of d.registries[key] = registry (0 = none)
    instances,          \* heap of constructed Registry objects
    rpc,                \* position of each caller inside GetRegistry
    rurl,               \* the url argument of each caller
    rreg,               \* the local variable registry of each caller
    rret,               \* the value a finished call returned
    rOkCtor,            \* the call began with an instance-yielding constructor registered
    ctorCalls,          \* identity -> number of constructor invocations
    returned,           \* identity -> set of values returned by calls with rOkCtor
    crashed,            \* the runtime aborted the process (fatal error)
    regCalls,           \* number of GetRegistry calls begun
    regRegs,            \* number of RegistExtRegistry calls made
    nilCtorSeen,        \* a constructor that yields nil has been registered

    \* ---- MotanRequest / MotanResponse: the attachment map ----
    attachment,         \* m.Attachment of each owner: a map reference (0 = nil)
    mu,                 \* m.mu of each owner: holder (0 = free)
    maps,               \* heap of StringMap objects: reference -> contents
    ownerKind,          \* the fresh message is a "request" or a "response"
    numOwners,          \* messages so far: 1 the fresh message, then its clones
    apc,                \* position of each writer inside GetAttachments / SetAttachment
    aop,                \* the call each writer is making
    alocal,             \* the local variable attachment of each writer
    created,            \* owner -> number of NewStringMap calls made by GetAttachments
    slow,               \* owner -> number of GetAttachments calls that took the lock
    gotMaps,            \* owner -> set of references GetAttachments returned
    setLog,             \* owner -> key -> values stored by SetAttachment calls that returned
    attOps,             \* number of calls begun

    \* ---- the terminal sentinel filters ----
    last,               \* the package variables lef and lcf: kind -> address (0 = nil)
    sentCreated,        \* kind -> number of new(lastEndPointFilter) / new(lastClusterFilter) run
    sentAddrs,          \* kind -> number of distinct addresses those gave
    spc,                \* position of each getter inside GetLastEndPointFilter / GetLastClusterFilter
    skind,              \* the sentinel kind each getter asks for
    sgot,               \* kind -> set of addresses the getters returned
    getCalls,           \* number of getter calls begun
    panicked,           \* a run-time panic was raised
    setNextCalls,       \* number of SetNext calls made on a sentinel
    setNextLogged,      \* number of those that logged their error and returned

    \* ---- FilterEndPoint and its chain ----
    configured,         \* indices of the configured (non-terminal) filters
    cpc,                \* position of the call inside FilterEndPoint.Call
    pos,                \* the chain node the call is at
    trace,              \* the logic executed so far, in order
    reqCtx,             \* the request's RPCContext: "absent", "noTc" or "tc"
    spans,              \* the spans put on the tracing handle
    callerResp,         \* the Response Caller.Call produced
    result,             \* the Response FilterEndPoint.Call returned
    chainCalls,         \* number of FilterEndPoint.Call calls begun

    \* ---- MotanRequest: lazy deserialization of the arguments ----
    arguments,          \* m.Arguments: [isNil, elems]
    origArguments,      \* the arguments the Request was constructed with
    before,             \* the arguments when the last ProcessDeserializable was called
    lastTypes,          \* the toTypes of the last ProcessDeserializable call
    lastErr,            \* the error the last ProcessDeserializable call returned
    succeeded,          \* a call on the pending Request has returned without error
    deserCalls,         \* number of ProcessDeserializable calls made

    \* ---- FilterEndPoint.IsAvailable ----
    statusFilters,      \* f.StatusFilters: [isNil, elems], each element what its IsAvailable() reports
    callerAvailable,    \* what f.Caller.IsAvailable() reports
    availCalled,        \* IsAvailable has been called since the last change of a status
    availResult,        \* what that call returned

    \* ---- DefaultExtensionFactory: the constructor mappings of every role ----
    factories,          \* d.filterFactories ... d.serializations: role -> key -> constructor
    facRegistries,      \* d.registries, as calls made one at a time see it
    facRegs,            \* number of RegistExt* calls made
    regLog,             \* role -> name -> the constructor last registered under that name
    idLog,              \* id -> the serialization constructor last registered under that id
    lookup,             \* the last Get* call: what it resolved, invoked and returned

    \* ---- one call made twice: with and without a tracing handle ----
    dEntry,             \* the method called: FilterEndPoint.Call or a sentinel's Filter
    dHead,              \* the head filter of the FilterEndPoint
    dCollab,            \* the Response the terminal collaborator gives for the request
    dpc,                \* run -> position of the call
    dctx,               \* run -> the request's RPCContext: "absent", "noTc" or "tc"
    dspans,             \* run -> the spans put on the tracing handle
    dcalls,             \* run -> the delegations made, in order
    dgot,               \* run -> the Response the last delegation returned
    drets,              \* run -> per stage that returned: what it got and what it gave
    dres,               \* run -> the Response the call returned

    \* ---- MotanRequest.Clone: the whole request, its RPCContext included ----
    creqs,              \* the requests: the original, then its clone
    cctxs,              \* heap of RPCContext objects
    cmsgs,              \* heap of original-message objects
    cmaps,              \* heap of StringMap objects

    \* ---- GetRPCContext on one Request or Response, called by several goroutines ----
    gOwner,             \* the owner: a MotanRequest or a MotanResponse
    gRPCContext,        \* m.RPCContext: the context the owner points at, or nil
    gctxs,              \* heap of RPCContext objects
    gpc,                \* goroutine -> position in GetRPCContext
    gcan,               \* goroutine -> the canCreate of its call
    gheld,              \* goroutine -> the context its last call returned
    greturned,          \* the calls that returned: canCreate and the context
    goverlapped,        \* some call began while another was under way
    gCalls              \* number of GetRPCContext calls made

regVars == <<registryFactories, registries, newRegistryLock, mapWriting, instances,
             rpc, rurl, rreg, rret, rOkCtor, ctorCalls, returned, crashed,
             regCalls, regRegs, nilCtorSeen>>

attVars == <<ownerKind, attachment, mu, maps, numOwners, apc, aop, alocal, created,
             slow, gotMaps, setLog, attOps>>

sentVars == <<last, sentCreated, sentAddrs, spc, skind, sgot, getCalls, panicked,
              setNextCalls, setNextLogged>>

chainVars == <<configured, cpc, pos, trace, reqCtx, spans, callerResp, result,
               chainCalls>>

deserVars == <<arguments, origArguments, before, lastTypes, lastErr, succeeded,
               deserCalls>>

availVars == <<statusFilters, callerAvailable, availCalled, availResult>>

facVars == <<factories, facRegistries, facRegs, regLog, idLog, lookup>>

delegVars == <<dEntry, dHead, dCollab, dpc, dctx, dspans, dcalls, dgot, drets, dres>>

cloneVars == <<creqs, cctxs, cmsgs, cmaps>>

ctxVars == <<gOwner, gRPCContext, gctxs, gpc, gcan, gheld, greturned, goverlapped,
             gCalls>>

vars == <<regVars, attVars, sentVars, chainVars, deserVars, availVars, facVars,
          delegVars, cloneVars, ctxVars>>

(***************************************************************************)
(* Bounds of the model.                                                    *)
(***************************************************************************)
NumCallers == 2
MaxRegCalls == 3
MaxRegs == 1

Callers == 1..NumCallers

(***************************************************************************)
(* The extension factory: GetRegistry and RegistExtRegistry.               *)
(***************************************************************************)
Protocols == {"zookeeper", "direct"}
Hosts == {"h1", "h2"}

\* The part of a URL the factory reads: its protocol and what makes its identity.
URLs == {u \in [Protocol : Protocols, host : Hosts] :
            u.Protocol = "direct" => u.host = "h1"}

\* url.GetIdentity(): a stable string naming the service endpoint configuration.
GetIdentity(url) == <<url.Protocol, url.host>>

Identities == {GetIdentity(u) : u \in URLs}

\* A NewRegistryFunc either yields an instance or yields nil.
CtorKinds == {"ctorOk", "ctorNil"}
NoCtor == "none"

\* The nil Registry.
NilRegistry == 0

Absent == [exist |-> FALSE, registry |-> NilRegistry]

\* DefaultExtensionFactory.Initialize: every mapping is made empty.
FactoryInitialize ==
    /\ registryFactories = [p \in Protocols |-> NoCtor]
    /\ registries = [k \in Identities |-> Absent]

RegInit ==
    /\ FactoryInitialize
    /\ newRegistryLock = 0
    /\ mapWriting = 0
    /\ instances = <<>>
    /\ rpc = [t \in Callers |-> "idle"]
    /\ rurl = [t \in Callers |-> CHOOSE u \in URLs : TRUE]
    /\ rreg = [t \in Callers |-> NilRegistry]
    /\ rret = [t \in Callers |-> NilRegistry]
    /\ rOkCtor = [t \in Callers |-> FALSE]
    /\ ctorCalls = [k \in Identities |-> 0]
    /\ returned = [k \in Identities |-> {}]
    /\ crashed = FALSE
    /\ regCalls = 0
    /\ regRegs = 0
    /\ nilCtorSeen = FALSE

\* d.registryFactories[name] = newRegistry.  Registration happens during
\* single-threaded bootstrap: no GetRegistry call is in flight.
RegistExtRegistry(name, newRegistry) ==
    /\ ~crashed
    /\ regRegs < MaxRegs
    /\ \A t \in Callers : rpc[t] = "idle"
    /\ registryFactories' = [registryFactories EXCEPT ![name] = newRegistry]
    /\ regRegs' = regRegs + 1
    /\ nilCtorSeen' = (nilCtorSeen \/ newRegistry = "ctorNil")
    /\ UNCHANGED <<attVars, sentVars, chainVars, deserVars, availVars, facVars, delegVars, cloneVars, ctxVars>>
    /\ UNCHANGED <<registries, newRegistryLock, mapWriting, instances, rpc, rurl,
                   rreg, rret, rOkCtor, ctorCalls, returned, crashed, regCalls>>

\* key := url.GetIdentity()
GetRegistryCall(t, url) ==
    /\ ~crashed
    /\ rpc[t] = "idle"
    /\ regCalls < MaxRegCalls
    /\ regCalls' = regCalls + 1
    /\ rurl' = [rurl EXCEPT ![t] = url]
    /\ rOkCtor' = [rOkCtor EXCEPT ![t] = registryFactories[url.Protocol] = "ctorOk"]
    /\ rpc' = [rpc EXCEPT ![t] = "fast"]
    /\ UNCHANGED <<nilCtorSeen, attVars, sentVars, chainVars, deserVars, availVars, facVars, delegVars, cloneVars, ctxVars>>
    /\ UNCHANGED <<registryFactories, registries, newRegistryLock, mapWriting,
                   instances, rreg, rret, ctorCalls, returned, crashed, regRegs>>

\* The outcomes of the unlocked read d.registries[key] of line 621.  The map is
\* a plain Go map, written at line 631 under newRegistryLock, which this read
\* does not hold.  A read that overlaps the write is a data race: the runtime
\* may abort ("concurrent map read and map write"), and a read of the key being
\* inserted may miss it, may find it with its value not yet stored (exist with
\* a nil Registry), or may find it whole.
FastRead(t) ==
    LET key == GetIdentity(rurl[t])
    IN IF mapWriting = 0
       THEN {[crash |-> FALSE, exist |-> registries[key].exist,
              registry |-> registries[key].registry]}
       ELSE {[crash |-> TRUE, exist |-> FALSE, registry |-> NilRegistry]}
            \cup
            (IF key = GetIdentity(rurl[mapWriting])
             THEN {[crash |-> FALSE, exist |-> FALSE, registry |-> NilRegistry],
                   [crash |-> FALSE, exist |-> TRUE, registry |-> NilRegistry],
                   [crash |-> FALSE, exist |-> TRUE, registry |-> rreg[mapWriting]]}
             ELSE {[crash |-> FALSE, exist |-> registries[key].exist,
                    registry |-> registries[key].registry]})

\* if registry, exist := d.registries[key]; exist { return registry }
GetRegistryFast(t) ==
    /\ ~crashed
    /\ rpc[t] = "fast"
    /\ \E r \in FastRead(t) :
         IF r.crash
         THEN /\ crashed' = TRUE
              /\ UNCHANGED <<rpc, rret>>
         ELSE /\ crashed' = crashed
              /\ IF r.exist
                 THEN /\ rret' = [rret EXCEPT ![t] = r.registry]
                      /\ rpc' = [rpc EXCEPT ![t] = "done"]
                 ELSE /\ rpc' = [rpc EXCEPT ![t] = "lock"]
                      /\ UNCHANGED rret
    /\ UNCHANGED <<nilCtorSeen, attVars, sentVars, chainVars, deserVars, availVars, facVars, delegVars, cloneVars, ctxVars>>
    /\ UNCHANGED <<registryFactories, registries, newRegistryLock, mapWriting,
                   instances, rurl, rreg, rOkCtor, ctorCalls, returned, regCalls,
                   regRegs>>

\* d.newRegistryLock.Lock()
GetRegistryLock(t) ==
    /\ ~crashed
    /\ rpc[t] = "lock"
    /\ newRegistryLock = 0
    /\ newRegistryLock' = t
    /\ rpc' = [rpc EXCEPT ![t] = "check"]
    /\ UNCHANGED <<nilCtorSeen, attVars, sentVars, chainVars, deserVars, availVars, facVars, delegVars, cloneVars, ctxVars>>
    /\ UNCHANGED <<registryFactories, registries, mapWriting, instances, rurl, rreg,
                   rret, rOkCtor, ctorCalls, returned, crashed, regCalls, regRegs>>

\* The second check, made under the lock: the cached instance if there is one.
Recheck(key) == registries[key]

\* if registry, exist := d.registries[key]; exist {...}
\* else if newRegistry, ok := d.registryFactories[url.Protocol]; ok {...}
\* vlog.Errorf(...); return nil
GetRegistryRecheck(t) ==
    /\ ~crashed
    /\ rpc[t] = "check"
    /\ LET found == Recheck(GetIdentity(rurl[t]))
       IN IF found.exist
          THEN /\ rret' = [rret EXCEPT ![t] = found.registry]
               /\ rpc' = [rpc EXCEPT ![t] = "unlock"]
          ELSE IF registryFactories[rurl[t].Protocol] # NoCtor
          THEN /\ rpc' = [rpc EXCEPT ![t] = "new"]
               /\ UNCHANGED rret
          ELSE /\ rret' = [rret EXCEPT ![t] = NilRegistry]
               /\ rpc' = [rpc EXCEPT ![t] = "unlock"]
    /\ UNCHANGED <<nilCtorSeen, attVars, sentVars, chainVars, deserVars, availVars, facVars, delegVars, cloneVars, ctxVars>>
    /\ UNCHANGED <<registryFactories, registries, newRegistryLock, mapWriting,
                   instances, rurl, rreg, rOkCtor, ctorCalls, returned, crashed,
                   regCalls, regRegs>>

\* registry := newRegistry(url)
GetRegistryNew(t) ==
    /\ ~crashed
    /\ rpc[t] = "new"
    /\ LET key == GetIdentity(rurl[t])
       IN /\ ctorCalls' = [ctorCalls EXCEPT ![key] = @ + 1]
          /\ IF registryFactories[rurl[t].Protocol] = "ctorOk"
             THEN /\ instances' = Append(instances, [key |-> key, inited |-> FALSE])
                  /\ rreg' = [rreg EXCEPT ![t] = Len(instances) + 1]
             ELSE /\ rreg' = [rreg EXCEPT ![t] = NilRegistry]
                  /\ UNCHANGED instances
    /\ rpc' = [rpc EXCEPT ![t] = "init"]
    /\ UNCHANGED <<nilCtorSeen, attVars, sentVars, chainVars, deserVars, availVars, facVars, delegVars, cloneVars, ctxVars>>
    /\ UNCHANGED <<registryFactories, registries, newRegistryLock, mapWriting, rurl,
                   rret, rOkCtor, returned, crashed, regCalls, regRegs>>

\* A mutant of Initialize: the hook is not run.
InitializeSkipped(s) == instances

\* Initialize(registry): runs the hook of a value that has one; nil has none.
Initialize(s) ==
    IF s # NilRegistry
    THEN [instances EXCEPT ![s].inited = TRUE]
    ELSE instances

GetRegistryInitialize(t) ==
    /\ ~crashed
    /\ rpc[t] = "init"
    /\ instances' = Initialize(rreg[t])
    /\ rpc' = [rpc EXCEPT ![t] = "store"]
    /\ UNCHANGED <<nilCtorSeen, attVars, sentVars, chainVars, deserVars, availVars, facVars, delegVars, cloneVars, ctxVars>>
    /\ UNCHANGED <<registryFactories, registries, newRegistryLock, mapWriting, rurl,
                   rreg, rret, rOkCtor, ctorCalls, returned, crashed, regCalls,
                   regRegs>>

\* d.registries[key] = registry, first half: the map assignment inserts the key.
GetRegistryStoreBegin(t) ==
    /\ ~crashed
    /\ rpc[t] = "store"
    /\ mapWriting' = t
    /\ rpc' = [rpc EXCEPT ![t] = "store2"]
    /\ UNCHANGED <<nilCtorSeen, attVars, sentVars, chainVars, deserVars, availVars, facVars, delegVars, cloneVars, ctxVars>>
    /\ UNCHANGED <<registryFactories, registries, newRegistryLock, instances, rurl,
                   rreg, rret, rOkCtor, ctorCalls, returned, crashed, regCalls,
                   regRegs>>

\* d.registries[key] = registry, second half: the value is in place; return registry.
GetRegistryStoreEnd(t) ==
    /\ ~crashed
    /\ rpc[t] = "store2"
    /\ registries' = [registries EXCEPT ![GetIdentity(rurl[t])] =
                         [exist |-> TRUE, registry |-> rreg[t]]]
    /\ mapWriting' = 0
    /\ rret' = [rret EXCEPT ![t] = rreg[t]]
    /\ rpc' = [rpc EXCEPT ![t] = "unlock"]
    /\ UNCHANGED <<nilCtorSeen, attVars, sentVars, chainVars, deserVars, availVars, facVars, delegVars, cloneVars, ctxVars>>
    /\ UNCHANGED <<registryFactories, newRegistryLock, instances, rurl, rreg,
                   rOkCtor, ctorCalls, returned, crashed, regCalls, regRegs>>

\* defer d.newRegistryLock.Unlock()
GetRegistryUnlock(t) ==
    /\ ~crashed
    /\ rpc[t] = "unlock"
    /\ newRegistryLock' = 0
    /\ rpc' = [rpc EXCEPT ![t] = "done"]
    /\ UNCHANGED <<nilCtorSeen, attVars, sentVars, chainVars, deserVars, availVars, facVars, delegVars, cloneVars, ctxVars>>
    /\ UNCHANGED <<registryFactories, registries, mapWriting, instances, rurl, rreg,
                   rret, rOkCtor, ctorCalls, returned, crashed, regCalls, regRegs>>

\* The call has returned rret[t] to its caller.
GetRegistryReturn(t) ==
    /\ ~crashed
    /\ rpc[t] = "done"
    /\ returned' = IF rOkCtor[t]
                   THEN [returned EXCEPT ![GetIdentity(rurl[t])] = @ \cup {rret[t]}]
                   ELSE returned
    /\ rpc' = [rpc EXCEPT ![t] = "idle"]
    /\ UNCHANGED <<nilCtorSeen, attVars, sentVars, chainVars, deserVars, availVars, facVars, delegVars, cloneVars, ctxVars>>
    /\ UNCHANGED <<registryFactories, registries, newRegistryLock, mapWriting,
                   instances, rurl, rreg, rret, rOkCtor, ctorCalls, crashed,
                   regCalls, regRegs>>

RegNext ==
    \/ \E name \in Protocols, c \in CtorKinds : RegistExtRegistry(name, c)
    \/ \E t \in Callers, u \in URLs : GetRegistryCall(t, u)
    \/ \E t \in Callers : GetRegistryFast(t)
    \/ \E t \in Callers : GetRegistryLock(t)
    \/ \E t \in Callers : GetRegistryRecheck(t)
    \/ \E t \in Callers : GetRegistryNew(t)
    \/ \E t \in Callers : GetRegistryInitialize(t)
    \/ \E t \in Callers : GetRegistryStoreBegin(t)
    \/ \E t \in Callers : GetRegistryStoreEnd(t)
    \/ \E t \in Callers : GetRegistryUnlock(t)
    \/ \E t \in Callers : GetRegistryReturn(t)

\* The registry group at rest.
RegOff == RegInit

(***************************************************************************)
(* MotanRequest / MotanResponse: GetAttachments, SetAttachment, Clone.     *)
(* MotanResponse.GetAttachments and SetAttachment (lines 499-533) repeat   *)
(* the code of MotanRequest word for word; one set of actions, taking the  *)
(* owner as a parameter, models both.                                      *)
(***************************************************************************)
NumWriters == 2
MaxAttOps == 2
MaxClones == 1

Writers == 1..NumWriters
\* Owner 1 is the freshly constructed message; the others are its clones.
Owners == 1..(1 + MaxClones)
TheMessage == 1

AttKeys == {"a", "b"}
\* The value a call writes: the number of the call, so each call's is its own.
AttValues == 1..MaxAttOps
NoValue == 0

\* The nil *StringMap.
NilMap == 0

\* NewStringMap(DefaultAttachmentSize): an empty map (the size is a capacity hint).
DefaultAttachmentSize == 16
NewStringMap(cap) == [k \in AttKeys |-> NoValue]

\* StringMap.Store(key, value): one atomic insert-or-overwrite.
StringMapStore(m, key, value) == [m EXCEPT ![key] = value]

\* StringMap.Copy(): a new map holding the same pairs.
StringMapCopy(m) == [k \in AttKeys |-> m[k]]

\* What aop holds while a writer is between calls.
NoCall == [kind |-> "none", o |-> 0, key |-> "", value |-> NoValue]

\* The calls a writer can make: GetAttachments() and SetAttachment(key, value).
AttCalls(value) == [kind : {"get"}, o : Owners, key : {""}, value : {NoValue}]
                   \cup [kind : {"set"}, o : Owners, key : AttKeys, value : {value}]

AttInit ==
    /\ ownerKind \in {"request", "response"}
    /\ attachment = [o \in Owners |-> NilMap]
    /\ mu = [o \in Owners |-> 0]
    /\ maps = <<>>
    /\ numOwners = 1
    /\ apc = [t \in Writers |-> "idle"]
    /\ aop = [t \in Writers |-> NoCall]
    /\ alocal = [t \in Writers |-> NilMap]
    /\ created = [o \in Owners |-> 0]
    /\ slow = [o \in Owners |-> 0]
    /\ gotMaps = [o \in Owners |-> {}]
    /\ setLog = [o \in Owners |-> [k \in AttKeys |-> {}]]
    /\ attOps = 0

\* The attachment group at rest.
AttOff == AttInit /\ ownerKind = "request"

\* A writer begins GetAttachments() or SetAttachment(key, value) on an owner.
\* Writers are interchangeable: the call goes to the first writer that is free.
AttCall(t, c) ==
    /\ apc[t] = "idle"
    /\ \A u \in Writers : u < t => apc[u] # "idle"
    /\ attOps < MaxAttOps
    /\ c.o <= numOwners
    /\ attOps' = attOps + 1
    /\ aop' = [aop EXCEPT ![t] = c]
    /\ apc' = [apc EXCEPT ![t] = "load"]
    /\ UNCHANGED <<ownerKind, attachment, mu, maps, numOwners, alocal, created, slow,
                   gotMaps, setLog>>
    /\ UNCHANGED <<regVars, sentVars, chainVars, deserVars, availVars, facVars, delegVars, cloneVars, ctxVars>>

\* GetAttachments returns the reference a to writer t: to the caller of
\* GetAttachments, or to SetAttachment, which goes on to Store.
ReturnAttachments(t, a) ==
    /\ gotMaps' = [gotMaps EXCEPT ![aop[t].o] = @ \cup {a}]
    /\ IF aop[t].kind = "set"
       THEN /\ apc' = [apc EXCEPT ![t] = "store"]
            /\ alocal' = [alocal EXCEPT ![t] = a]
            /\ UNCHANGED aop
       ELSE /\ apc' = [apc EXCEPT ![t] = "idle"]
            /\ alocal' = [alocal EXCEPT ![t] = NilMap]
            /\ aop' = [aop EXCEPT ![t] = NoCall]

\* attachment := atomic.LoadPointer(&m.Attachment); if attachment != nil { return attachment }
GetAttachmentsLoad(t) ==
    /\ apc[t] = "load"
    /\ LET o == aop[t].o
       IN IF attachment[o] # NilMap
          THEN /\ ReturnAttachments(t, attachment[o])
               /\ UNCHANGED slow
          ELSE /\ apc' = [apc EXCEPT ![t] = "lock"]
               /\ slow' = [slow EXCEPT ![o] = @ + 1]
               /\ UNCHANGED <<aop, alocal, gotMaps>>
    /\ UNCHANGED <<ownerKind, attachment, mu, maps, numOwners, created, setLog, attOps>>
    /\ UNCHANGED <<regVars, sentVars, chainVars, deserVars, availVars, facVars, delegVars, cloneVars, ctxVars>>

\* m.mu.Lock()
GetAttachmentsLock(t) ==
    /\ apc[t] = "lock"
    /\ mu[aop[t].o] = 0
    /\ mu' = [mu EXCEPT ![aop[t].o] = t]
    /\ apc' = [apc EXCEPT ![t] = "check"]
    /\ UNCHANGED <<ownerKind, attachment, maps, numOwners, aop, alocal, created, slow,
                   gotMaps, setLog, attOps>>
    /\ UNCHANGED <<regVars, sentVars, chainVars, deserVars, availVars, facVars, delegVars, cloneVars, ctxVars>>

\* A mutant of the second check: the map is created without looking again.
NoSecondCheck(o) == TRUE

\* if m.Attachment == nil, under the lock
StillAbsent(o) == attachment[o] = NilMap

\* if m.Attachment == nil { attachment = NewStringMap(...); atomic.StorePointer(...) }
\* else { attachment = m.Attachment }
GetAttachmentsCheck(t) ==
    /\ apc[t] = "check"
    /\ LET o == aop[t].o
       IN IF StillAbsent(o)
          THEN /\ maps' = Append(maps, NewStringMap(DefaultAttachmentSize))
               /\ alocal' = [alocal EXCEPT ![t] = Len(maps) + 1]
               /\ attachment' = [attachment EXCEPT ![o] = Len(maps) + 1]
               /\ created' = [created EXCEPT ![o] = @ + 1]
          ELSE /\ alocal' = [alocal EXCEPT ![t] = attachment[o]]
               /\ UNCHANGED <<maps, attachment, created>>
    /\ apc' = [apc EXCEPT ![t] = "unlock"]
    /\ UNCHANGED <<ownerKind, mu, numOwners, aop, slow, gotMaps, setLog, attOps>>
    /\ UNCHANGED <<regVars, sentVars, chainVars, deserVars, availVars, facVars, delegVars, cloneVars, ctxVars>>

\* defer m.mu.Unlock(), and return attachment
GetAttachmentsUnlock(t) ==
    /\ apc[t] = "unlock"
    /\ mu' = [mu EXCEPT ![aop[t].o] = 0]
    /\ ReturnAttachments(t, alocal[t])
    /\ UNCHANGED <<ownerKind, attachment, maps, numOwners, created, slow, setLog,
                   attOps>>
    /\ UNCHANGED <<regVars, sentVars, chainVars, deserVars, availVars, facVars, delegVars, cloneVars, ctxVars>>

\* m.GetAttachments().Store(key, value)
SetAttachmentStore(t) ==
    /\ apc[t] = "store"
    /\ maps' = [maps EXCEPT ![alocal[t]] = StringMapStore(@, aop[t].key, aop[t].value)]
    /\ setLog' = [setLog EXCEPT ![aop[t].o][aop[t].key] = @ \cup {aop[t].value}]
    /\ apc' = [apc EXCEPT ![t] = "idle"]
    /\ aop' = [aop EXCEPT ![t] = NoCall]
    /\ alocal' = [alocal EXCEPT ![t] = NilMap]
    /\ UNCHANGED <<ownerKind, attachment, mu, numOwners, created, slow, gotMaps,
                   attOps>>
    /\ UNCHANGED <<regVars, sentVars, chainVars, deserVars, availVars, facVars, delegVars, cloneVars, ctxVars>>

\* A mutant of Clone: the clone is handed the original's map itself.
CloneSharingAttachment(o) == attachment[o]

\* The Attachment field of the clone, and the heap after making it:
\* if m.Attachment != nil { newRequest.Attachment = m.Attachment.Copy() }
CloneAttachment(o) ==
    IF attachment[o] # NilMap THEN Len(maps) + 1 ELSE NilMap

\* MotanRequest.Clone, as far as the attachments go.  Only a Request has Clone.
Clone(o) ==
    /\ ownerKind = "request"
    /\ numOwners < 1 + MaxClones
    /\ o = TheMessage
    /\ numOwners' = numOwners + 1
    /\ attachment' = [attachment EXCEPT ![numOwners + 1] = CloneAttachment(o)]
    /\ maps' = IF attachment[o] # NilMap
               THEN Append(maps, StringMapCopy(maps[attachment[o]]))
               ELSE maps
    /\ UNCHANGED <<ownerKind, mu, apc, aop, alocal, created, slow, gotMaps, setLog,
                   attOps>>
    /\ UNCHANGED <<regVars, sentVars, chainVars, deserVars, availVars, facVars, delegVars, cloneVars, ctxVars>>

AttNext ==
    \/ \E t \in Writers : \E c \in AttCalls(attOps + 1) : AttCall(t, c)
    \/ \E t \in Writers : GetAttachmentsLoad(t)
    \/ \E t \in Writers : GetAttachmentsLock(t)
    \/ \E t \in Writers : GetAttachmentsCheck(t)
    \/ \E t \in Writers : GetAttachmentsUnlock(t)
    \/ \E t \in Writers : SetAttachmentStore(t)
    \/ \E o \in Owners : Clone(o)

\* The pairs an owner's attachment map holds (none while it has no map).
Contents(att, mps, o) ==
    IF att[o] = NilMap THEN [k \in AttKeys |-> NoValue] ELSE mps[att[o]]

(***************************************************************************)
(* The terminal sentinel filters: GetLastEndPointFilter,                   *)
(* GetLastClusterFilter, NewFilter, SetNext, HasNext, GetNext, GetIndex.   *)
(***************************************************************************)
NumGetters == 2
MaxGets == 3
MaxSetNext == 2

Getters == 1..NumGetters
\* "ep" is lastEndPointFilter and the variable lef, "cluster" lastClusterFilter and lcf.
Kinds == {"ep", "cluster"}

\* The nil pointer, and the nil filter interface value.
NilSentinel == 0
NilFilter == "nil"

\* The filters a caller may hand to SetNext.
SomeFilters == {"accessLog", "metrics"}

SentInit ==
    /\ last = [k \in Kinds |-> NilSentinel]
    /\ sentCreated = [k \in Kinds |-> 0]
    /\ sentAddrs = [k \in Kinds |-> 0]
    /\ spc = [t \in Getters |-> "idle"]
    /\ skind = [t \in Getters |-> "ep"]
    /\ sgot = [k \in Kinds |-> {}]
    /\ getCalls = 0
    /\ panicked = FALSE
    /\ setNextCalls = 0
    /\ setNextLogged = 0

\* The sentinel group at rest.
SentOff == SentInit

\* A getter begins GetLastEndPointFilter() or GetLastClusterFilter(), called
\* directly or through NewFilter(url) of a sentinel, which only forwards to it.
\* Getters are interchangeable: the call goes to the first getter that is free.
GetLastCall(t, kind) ==
    /\ ~panicked
    /\ spc[t] = "idle"
    /\ \A u \in Getters : u < t => spc[u] # "idle"
    /\ getCalls < MaxGets
    /\ getCalls' = getCalls + 1
    /\ skind' = [skind EXCEPT ![t] = kind]
    /\ spc' = [spc EXCEPT ![t] = "check"]
    /\ UNCHANGED <<last, sentCreated, sentAddrs, sgot, panicked, setNextCalls,
                   setNextLogged>>
    /\ UNCHANGED <<regVars, attVars, chainVars, deserVars, availVars, facVars, delegVars, cloneVars, ctxVars>>

\* if lef == nil
IsNil(kind) == last[kind] = NilSentinel

GetLastCheck(t) ==
    /\ ~panicked
    /\ spc[t] = "check"
    /\ spc' = [spc EXCEPT ![t] = IF IsNil(skind[t]) THEN "new" ELSE "return"]
    /\ UNCHANGED <<last, sentCreated, sentAddrs, skind, sgot, getCalls, panicked,
                   setNextCalls, setNextLogged>>
    /\ UNCHANGED <<regVars, attVars, chainVars, deserVars, availVars, facVars, delegVars, cloneVars, ctxVars>>

\* lef = new(lastEndPointFilter).  The type has size zero: the address of the
\* new variable may or may not differ from that of an earlier one.
GetLastNew(t) ==
    /\ ~panicked
    /\ spc[t] = "new"
    /\ \E a \in 1..(sentAddrs[skind[t]] + 1) :
         /\ last' = [last EXCEPT ![skind[t]] = a]
         /\ sentAddrs' = [sentAddrs EXCEPT ![skind[t]] = IF a > @ THEN a ELSE @]
    /\ sentCreated' = [sentCreated EXCEPT ![skind[t]] = @ + 1]
    /\ spc' = [spc EXCEPT ![t] = "return"]
    /\ UNCHANGED <<skind, sgot, getCalls, panicked, setNextCalls, setNextLogged>>
    /\ UNCHANGED <<regVars, attVars, chainVars, deserVars, availVars, facVars, delegVars, cloneVars, ctxVars>>

\* return lef
GetLastReturn(t) ==
    /\ ~panicked
    /\ spc[t] = "return"
    /\ sgot' = [sgot EXCEPT ![skind[t]] = @ \cup {last[skind[t]]}]
    /\ spc' = [spc EXCEPT ![t] = "idle"]
    /\ UNCHANGED <<last, sentCreated, sentAddrs, skind, getCalls, panicked,
                   setNextCalls, setNextLogged>>
    /\ UNCHANGED <<regVars, attVars, chainVars, deserVars, availVars, facVars, delegVars, cloneVars, ctxVars>>

\* HasNext(), GetNext() and GetIndex() of a sentinel: constants of the type.
HasNext(kind) == FALSE
GetNext(kind) == NilFilter
LastIndex == 100
GetIndex(kind) == LastIndex

\* nextFilter.GetName(), evaluated as an argument of vlog.Errorf: a method call
\* on a nil interface value raises a nil-dereference panic.
GetNamePanics(nextFilter) == nextFilter = NilFilter

\* func (l *lastEndPointFilter) SetNext(nextFilter EndPointFilter) {
\*     vlog.Errorf("should not set next ...", nextFilter.GetName()) }
SetNext(kind, nextFilter) ==
    /\ ~panicked
    /\ last[kind] # NilSentinel
    /\ setNextCalls < MaxSetNext
    /\ setNextCalls' = setNextCalls + 1
    /\ IF GetNamePanics(nextFilter)
       THEN /\ panicked' = TRUE
            /\ UNCHANGED setNextLogged
       ELSE /\ setNextLogged' = setNextLogged + 1
            /\ UNCHANGED panicked
    /\ UNCHANGED <<last, sentCreated, sentAddrs, spc, skind, sgot, getCalls>>
    /\ UNCHANGED <<regVars, attVars, chainVars, deserVars, availVars, facVars, delegVars, cloneVars, ctxVars>>

SentNext ==
    \/ \E t \in Getters, k \in Kinds : GetLastCall(t, k)
    \/ \E t \in Getters : GetLastCheck(t)
    \/ \E t \in Getters : GetLastNew(t)
    \/ \E t \in Getters : GetLastReturn(t)
    \/ \E k \in Kinds, f \in SomeFilters \cup {NilFilter} : SetNext(k, f)

(***************************************************************************)
(* FilterEndPoint.Call and the endpoint filter chain it enters.            *)
(***************************************************************************)
MaxFilters == 2
MaxChainCalls == 2

\* Indices the configured filters may carry: below the sentinel's.
ConfigIndices == {10, 20, 30}

Responses == {"value", "exception"}
NoResponse == "none"

\* The nodes of a chain: the configured filters and the endpoint sentinel.
Nodes(cfg) == {[name |-> "filter", index |-> i] : i \in cfg}
              \cup {[name |-> "lastEndPointFilter", index |-> GetIndex("ep")]}

\* The chain as the builder assembles it: by ascending GetIndex().
RECURSIVE SortByIndex(_)
SortByIndex(S) ==
    IF S = {} THEN <<>>
    ELSE LET m == CHOOSE x \in S : \A y \in S : x.index <= y.index
         IN <<m>> \o SortByIndex(S \ {m})

Chain == SortByIndex(Nodes(configured))

\* request.GetRPCContext(canCreate): the context is made when absent and asked for.
GetRPCContext(ctx, canCreate) ==
    IF ctx = "absent" /\ canCreate THEN "noTc" ELSE ctx

\* if request.GetRPCContext(true).Tc != nil { ...Tc.PutReqSpan(&Span{Name: name, ...}) }
PutReqSpan(ctx, sp, name) ==
    IF GetRPCContext(ctx, TRUE) = "tc" THEN Append(sp, name) ELSE sp

ChainInit ==
    /\ configured \in {S \in SUBSET ConfigIndices : Cardinality(S) <= MaxFilters}
    /\ cpc = "idle"
    /\ pos = 0
    /\ trace = <<>>
    /\ reqCtx = "absent"
    /\ spans = <<>>
    /\ callerResp = NoResponse
    /\ result = NoResponse
    /\ chainCalls = 0

\* The chain group at rest.
ChainOff == ChainInit /\ configured = {}

\* A mutant of FilterEndPoint.Call: the Caller is called directly.
BypassChain == "caller"

\* return f.Filter.Filter(f.Caller, request): the call enters the chain at its head.
EnterChain == "filter"

\* func (f *FilterEndPoint) Call(request Request) Response, up to the call of
\* the head filter.  ctx is the state of the RPCContext of the request given.
FilterEndPointCall(ctx) ==
    /\ cpc = "idle"
    /\ chainCalls < MaxChainCalls
    /\ chainCalls' = chainCalls + 1
    /\ reqCtx' = GetRPCContext(ctx, TRUE)
    /\ spans' = PutReqSpan(ctx, <<>>, "EpFilterStart")
    /\ trace' = <<>>
    /\ pos' = 1
    /\ cpc' = EnterChain
    /\ callerResp' = NoResponse
    /\ result' = NoResponse
    /\ UNCHANGED configured
    /\ UNCHANGED <<regVars, attVars, sentVars, deserVars, availVars, facVars, delegVars, cloneVars, ctxVars>>

\* Filter(caller, request) of a configured filter: its own logic, then
\* GetNext().Filter(caller, request).
ConfiguredFilterFilter ==
    /\ cpc = "filter"
    /\ Chain[pos].name = "filter"
    /\ trace' = Append(trace, [who |-> "filter", index |-> Chain[pos].index])
    /\ pos' = pos + 1
    /\ UNCHANGED <<configured, cpc, reqCtx, spans, callerResp, result, chainCalls>>
    /\ UNCHANGED <<regVars, attVars, sentVars, deserVars, availVars, facVars, delegVars, cloneVars, ctxVars>>

\* func (l *lastEndPointFilter) Filter(caller Caller, request Request) Response,
\* up to the call of caller.Call(request).
LastEndPointFilterFilter ==
    /\ cpc = "filter"
    /\ Chain[pos].name = "lastEndPointFilter"
    /\ reqCtx' = GetRPCContext(reqCtx, TRUE)
    /\ spans' = PutReqSpan(reqCtx, spans, "EpFilterEnd")
    /\ trace' = Append(trace, [who |-> "last", index |-> Chain[pos].index])
    /\ cpc' = "caller"
    /\ UNCHANGED <<configured, pos, callerResp, result, chainCalls>>
    /\ UNCHANGED <<regVars, attVars, sentVars, deserVars, availVars, facVars, delegVars, cloneVars, ctxVars>>

\* caller.Call(request): the wrapped Caller produces a Response.
CallerCall(r) ==
    /\ cpc = "caller"
    /\ trace' = Append(trace, [who |-> "caller", index |-> 0])
    /\ callerResp' = r
    /\ cpc' = "return"
    /\ UNCHANGED <<configured, pos, reqCtx, spans, result, chainCalls>>
    /\ UNCHANGED <<regVars, attVars, sentVars, deserVars, availVars, facVars, delegVars, cloneVars, ctxVars>>

\* The returns: the sentinel returns what caller.Call returned, each filter
\* what its next returned, FilterEndPoint.Call what the head returned.
ChainReturn ==
    /\ cpc = "return"
    /\ result' = callerResp
    /\ cpc' = "done"
    /\ UNCHANGED <<configured, pos, trace, reqCtx, spans, callerResp, chainCalls>>
    /\ UNCHANGED <<regVars, attVars, sentVars, deserVars, availVars, facVars, delegVars, cloneVars, ctxVars>>

\* The endpoint's chain is rebuilt with other filters before a later call.
Reconfigure(cfg) ==
    /\ cpc = "done"
    /\ chainCalls < MaxChainCalls
    /\ Cardinality(cfg) <= MaxFilters
    /\ configured' = cfg
    /\ cpc' = "idle"
    /\ UNCHANGED <<pos, trace, reqCtx, spans, callerResp, result, chainCalls>>
    /\ UNCHANGED <<regVars, attVars, sentVars, deserVars, availVars, facVars, delegVars, cloneVars, ctxVars>>

ChainNext ==
    \/ \E ctx \in {"absent", "noTc", "tc"} : FilterEndPointCall(ctx)
    \/ ConfiguredFilterFilter
    \/ LastEndPointFilterFilter
    \/ \E r \in Responses : CallerCall(r)
    \/ ChainReturn
    \/ \E cfg \in SUBSET ConfigIndices : Reconfigure(cfg)

(***************************************************************************)
(* DeserializableValue and MotanRequest.ProcessDeserializable.             *)
(***************************************************************************)
MaxBody == 3
MaxByte == 2
MaxDeserCalls == 2

Bytes == 0..MaxByte
Bodies == UNION {[1..n -> Bytes] : n \in 0..MaxBody}

\* The Serialization of a DeserializableValue: nil, or one of two codecs.
\* "simple" decodes without target types; "typed" needs them.
NilSerialization == "nil"
Serializations == {"simple", "typed"}

NoError == "nil"
ErrNilSerialization == "deserialize fail in DeserializableValue, Serialization is nil"
ErrMalformed == "malformed body"
ErrNoTypes == "target types needed"

\* A slice of arguments: nil, or its elements.
NilSlice == [isNil |-> TRUE, elems |-> <<>>]
Slice(elems) == [isNil |-> FALSE, elems |-> elems]

Value(b) == [kind |-> "value", ser |-> NilSerialization, body |-> <<b>>]
DV(ser, body) == [kind |-> "DeserializableValue", ser |-> ser, body |-> body]

DVs == {DV(ser, body) : ser \in Serializations \cup {NilSerialization}, body \in Bodies}

\* The target types handed to ProcessDeserializable: nil, or given.
ToTypes == {"nil", "types"}

\* Serialization.DeSerializeMulti(b, v) of the two codecs.  A body is a count
\* followed by that many one-byte values; anything else is malformed.
SerializationDeSerializeMulti(ser, b, v) ==
    IF ser = "typed" /\ v = "nil"
    THEN [v |-> NilSlice, err |-> ErrNoTypes]
    ELSE IF Len(b) = 0 \/ b[1] # Len(b) - 1
    THEN [v |-> NilSlice, err |-> ErrMalformed]
    ELSE [v |-> Slice([i \in 1..(Len(b) - 1) |-> Value(b[i + 1])]), err |-> NoError]

\* func (d *DeserializableValue) DeserializeMulti(v []interface{}) ([]interface{}, error)
DeserializeMulti(d, v) ==
    IF d.ser = NilSerialization
    THEN [v |-> NilSlice, err |-> ErrNilSerialization]
    ELSE SerializationDeSerializeMulti(d.ser, d.body, v)

\* The Request is pending multi-argument deserialization.
Pending(args) ==
    /\ ~args.isNil
    /\ Len(args.elems) = 1
    /\ args.elems[1].kind = "DeserializableValue"

\* A mutant: the decoded values are dropped, the arguments left as they were.
ArgumentsNotSet(args, toTypes) ==
    IF Pending(args)
    THEN [args |-> args, err |-> DeserializeMulti(args.elems[1], toTypes).err]
    ELSE [args |-> args, err |-> NoError]

\* A mutant: a failure is swallowed, and what the decoder returned is set.
ErrorSwallowed(args, toTypes) ==
    IF Pending(args)
    THEN [args |-> DeserializeMulti(args.elems[1], toTypes).v, err |-> NoError]
    ELSE [args |-> args, err |-> NoError]

\* func (m *MotanRequest) ProcessDeserializable(toTypes []interface{}) error:
\* the arguments it leaves and the error it returns.
ProcessDeserializableOf(args, toTypes) ==
    IF ~args.isNil /\ Len(args.elems) = 1
    THEN IF args.elems[1].kind = "DeserializableValue"
         THEN LET r == DeserializeMulti(args.elems[1], toTypes)
              IN IF r.err # NoError
                 THEN [args |-> args, err |-> r.err]
                 ELSE [args |-> r.v, err |-> NoError]
         ELSE [args |-> args, err |-> NoError]
    ELSE [args |-> args, err |-> NoError]

\* The argument slices a Request is constructed with.
InitialArguments ==
    {NilSlice, Slice(<<>>)}
    \cup {Slice(<<Value(b)>>) : b \in Bytes}
    \cup {Slice(<<d>>) : d \in DVs}
    \cup {Slice(<<d, Value(0)>>) : d \in DVs}

NotCalled == "not called"

DeserInit ==
    /\ arguments \in InitialArguments
    /\ origArguments = arguments
    /\ before = arguments
    /\ lastTypes = "nil"
    /\ lastErr = NotCalled
    /\ succeeded = FALSE
    /\ deserCalls = 0

\* The deserialization group at rest.
DeserOff == DeserInit /\ arguments = NilSlice

ProcessDeserializable(toTypes) ==
    /\ deserCalls < MaxDeserCalls
    /\ deserCalls' = deserCalls + 1
    /\ LET r == ProcessDeserializableOf(arguments, toTypes)
       IN /\ arguments' = r.args
          /\ lastErr' = r.err
          /\ succeeded' = (succeeded \/ (Pending(arguments) /\ r.err = NoError))
    /\ before' = arguments
    /\ lastTypes' = toTypes
    /\ UNCHANGED origArguments
    /\ UNCHANGED <<regVars, attVars, sentVars, chainVars, availVars, facVars, delegVars, cloneVars, ctxVars>>

DeserNext == \E toTypes \in ToTypes : ProcessDeserializable(toTypes)

(***************************************************************************)
(* FilterEndPoint.IsAvailable.                                             *)
(***************************************************************************)
MaxStatus == 4

StatusLists == {[isNil |-> TRUE, elems |-> <<>>]}
               \cup {[isNil |-> FALSE, elems |-> e] :
                       e \in UNION {[1..n -> BOOLEAN] : n \in 0..MaxStatus}}

\* A mutant of the loop bound: the first Status check is never consulted.
FirstSkipped(i) == i >= 2

\* for i := len(f.StatusFilters) - 1; i >= 0; i-- (elements are numbered from 1 here)
LoopContinues(i) == i >= 1

\* for ...; i-- { if !f.StatusFilters[i].IsAvailable() { return false } }
\* TRUE when the loop ends without returning.
RECURSIVE ScanStatusFilters(_, _)
ScanStatusFilters(elems, i) ==
    IF ~LoopContinues(i) THEN TRUE
    ELSE IF ~elems[i] THEN FALSE
    ELSE ScanStatusFilters(elems, i - 1)

\* func (f *FilterEndPoint) IsAvailable() bool
IsAvailable(sf, callerAvail) ==
    IF ~sf.isNil /\ Len(sf.elems) > 0
    THEN IF ~ScanStatusFilters(sf.elems, Len(sf.elems))
         THEN FALSE
         ELSE callerAvail
    ELSE callerAvail

AvailInit ==
    /\ statusFilters \in StatusLists
    /\ callerAvailable \in BOOLEAN
    /\ availCalled = FALSE
    /\ availResult = FALSE

\* The availability group at rest.
AvailOff ==
    /\ statusFilters = [isNil |-> TRUE, elems |-> <<>>]
    /\ callerAvailable = TRUE
    /\ availCalled = FALSE
    /\ availResult = FALSE

IsAvailableCall ==
    /\ availResult' = IsAvailable(statusFilters, callerAvailable)
    /\ availCalled' = TRUE
    /\ UNCHANGED <<statusFilters, callerAvailable>>
    /\ UNCHANGED <<regVars, attVars, sentVars, chainVars, deserVars, facVars, delegVars, cloneVars, ctxVars>>

\* An auxiliary Status check comes to report something else.
StatusChanges(i) ==
    /\ i <= Len(statusFilters.elems)
    /\ statusFilters' = [statusFilters EXCEPT !.elems[i] = ~@]
    /\ availCalled' = FALSE
    /\ availResult' = FALSE
    /\ UNCHANGED callerAvailable
    /\ UNCHANGED <<regVars, attVars, sentVars, chainVars, deserVars, facVars, delegVars, cloneVars, ctxVars>>

\* The wrapped Caller comes to report something else.
CallerChanges ==
    /\ callerAvailable' = ~callerAvailable
    /\ availCalled' = FALSE
    /\ availResult' = FALSE
    /\ UNCHANGED statusFilters
    /\ UNCHANGED <<regVars, attVars, sentVars, chainVars, deserVars, facVars, delegVars, cloneVars, ctxVars>>

AvailNext ==
    \/ IsAvailableCall
    \/ \E i \in 1..MaxStatus : StatusChanges(i)
    \/ CallerChanges

(***************************************************************************)
(* DefaultExtensionFactory: the RegistExt* registrations and the Get*      *)
(* lookups of every role, as calls made one at a time.                     *)
(***************************************************************************)
MaxFacRegs == 2

FacRoles == {"filter", "ha", "lb", "endpoint", "provider", "registry", "server",
             "messageHandler", "serialization"}

\* The names extensions are registered under and asked for by, and the ids of
\* serializations.  One name has surrounding white space; one reads as a number.
FacNames == {"x", " x", "0"}
SerIds == {-1, 0}

\* strings.TrimSpace, on the strings of the model.
TrimSpace(s) == IF s = " x" THEN "x" ELSE s

\* strconv.Itoa, on the ids of the model.
Itoa(i) == IF i < 0 THEN "-1" ELSE "0"

\* The names the lookups fall back to.
DefaultHa == "failover"
DefaultLb == "random"
DefaultProvider == "default"
DefaultServer == "motan2"

\* The names a role's registration is called with: a plain one and, by the
\* role, the name its lookup falls back to, one with white space, or one that
\* reads as a number.
RegNames(role) ==
    {"x"} \cup CASE role = "ha" -> {DefaultHa}
                 [] role = "lb" -> {DefaultLb}
                 [] role = "provider" -> {DefaultProvider}
                 [] role = "server" -> {DefaultServer}
                 [] role \in {"filter", "messageHandler"} -> {" x"}
                 [] OTHER -> {"0"}

\* Every string that can key a mapping.
FacKeys == FacNames \cup {"", TrimSpace(" x"), DefaultHa, DefaultLb, DefaultProvider,
                          DefaultServer} \cup {Itoa(i) : i \in SerIds}

\* No constructor: what a mapping gives for a key it does not hold.
NoFactory == 0
\* The nil extension.
NilExt == 0

\* The URL parameters the lookups read.
Hakey == "haStrategy"
Lbkey == "loadbalance"
ProviderKey == "provider"
ProxyKey == "proxy"

NoParams == [k \in {} |-> ""]

FacURL(protocol, params) == [Protocol |-> protocol, host |-> "h1", Parameters |-> params]

\* Export descriptors ("name:port"): one with a name, one without.
ProxyValues == {"x:1", ":1"}

\* ParseExportInfo(proxy): the name part of the descriptor (its first result).
ParseExportInfo(proxy) == IF proxy = "x:1" THEN "x" ELSE ""

FacURLs ==
    {FacURL(p, NoParams) : p \in {"x", "0", ""}}
    \cup {FacURL("x", k :> "x") : k \in {Hakey, Lbkey, ProviderKey}}
    \cup {FacURL("x", ProxyKey :> d) : d \in ProxyValues}
    \cup {FacURL("x", (ProviderKey :> "default") @@ (ProxyKey :> "x:1"))}

FacIdentities == {GetIdentity(u) : u \in FacURLs}

\* url.GetParam(key, defaultValue): the parameter, or the default when the URL has none.
GetParam(url, key, defaultValue) ==
    IF key \in DOMAIN url.Parameters THEN url.Parameters[key] ELSE defaultValue

\* The arguments of a lookup, as far as it reads them.
Arg(a, b, id) == [a |-> a, b |-> b, id |-> id]

NoLookup == [fn |-> "none", arg |-> Arg("", "", -1), name |-> "", role |-> "none",
             invoked |-> FALSE, ctor |-> NoFactory, result |-> NilExt,
             inited |-> FALSE, panic |-> FALSE]

FacInit ==
    /\ factories = [r \in FacRoles |-> [k \in FacKeys |-> NoFactory]]
    /\ facRegistries = [k \in FacIdentities |-> Absent]
    /\ facRegs = 0
    /\ regLog = [r \in FacRoles |-> [k \in FacKeys |-> NoFactory]]
    /\ idLog = [i \in SerIds |-> NoFactory]
    /\ lookup = NoLookup

\* The factory group at rest.
FacOff == FacInit

\* d.xFactories[name] = newFunc
Insert(m, name, newFunc) == [m EXCEPT ![name] = newFunc]

\* RegistExtFilter, RegistExtHa, RegistExtLb, RegistExtEndpoint, RegistExtProvider,
\* RegistExtRegistry, RegistExtServer, RegistryExtMessageHandler: one insert
\* into the mapping of the role.
RegistExt(role, name, newFunc) ==
    /\ lookup = NoLookup
    /\ facRegs < MaxFacRegs
    /\ facRegs' = facRegs + 1
    /\ factories' = [factories EXCEPT ![role] = Insert(@, name, newFunc)]
    /\ regLog' = [regLog EXCEPT ![role][name] = newFunc]
    /\ UNCHANGED <<facRegistries, idLog, lookup>>
    /\ UNCHANGED <<regVars, attVars, sentVars, chainVars, deserVars, availVars, delegVars, cloneVars, ctxVars>>

\* RegistryExtSerialization: one insert under the name, one under the id's text.
RegistryExtSerialization(name, id, newSerialization) ==
    /\ lookup = NoLookup
    /\ facRegs < MaxFacRegs
    /\ facRegs' = facRegs + 1
    /\ factories' = [factories EXCEPT !["serialization"] =
                        Insert(Insert(@, name, newSerialization), Itoa(id),
                               newSerialization)]
    /\ regLog' = [regLog EXCEPT !["serialization"][name] = newSerialization]
    /\ idLog' = [idLog EXCEPT ![id] = newSerialization]
    /\ UNCHANGED <<facRegistries, lookup>>
    /\ UNCHANGED <<regVars, attVars, sentVars, chainVars, deserVars, availVars, delegVars, cloneVars, ctxVars>>

\* A mutant of the lookups: the ok of the map read is not tested.
OkIgnored(role, name) == TRUE

\* newX, ok := d.xFactories[name]: the ok.
Found(role, name) == factories[role][name] # NoFactory

\* if newX, ok := d.xFactories[name]; ok { return newX(...) }
\* vlog.Errorf(...); return nil
\* The instance a constructor yields is named by the constructor; init tells
\* whether the lookup runs Initialize on it.  Calling a nil func value panics.
Resolve(fn, arg, role, name, init) ==
    LET c == factories[role][name]
    IN IF Found(role, name)
       THEN [fn |-> fn, arg |-> arg, name |-> name, role |-> role, invoked |-> TRUE,
             ctor |-> c, result |-> c, inited |-> init /\ c # NoFactory,
             panic |-> c = NoFactory]
       ELSE [fn |-> fn, arg |-> arg, name |-> name, role |-> role, invoked |-> FALSE,
             ctor |-> NoFactory, result |-> NilExt, inited |-> FALSE, panic |-> FALSE]

\* The key a lookup by name reads: GetFilter, GetMessageHandler and
\* GetSerialization trim the name, the other lookups read it as it is.
LookupKey(role, name) ==
    IF role \in {"filter", "messageHandler", "serialization"}
    THEN TrimSpace(name)
    ELSE name

\* A lookup returns: it has written nothing.
Return(l) ==
    /\ lookup = NoLookup
    /\ lookup' = l
    /\ UNCHANGED <<factories, facRegistries, facRegs, regLog, idLog>>
    /\ UNCHANGED <<regVars, attVars, sentVars, chainVars, deserVars, availVars, delegVars, cloneVars, ctxVars>>

GetHa(url) ==
    LET haName == GetParam(url, Hakey, DefaultHa)
    IN Return(Resolve("GetHa", Arg(haName, "", -1), "ha", haName, FALSE))

GetLB(url) ==
    LET lbName == GetParam(url, Lbkey, DefaultLb)
    IN Return(Resolve("GetLB", Arg(lbName, "", -1), "lb", lbName, FALSE))

GetFilter(name) ==
    Return(Resolve("GetFilter", Arg(name, "", -1), "filter", TrimSpace(name), FALSE))

GetEndPoint(url) ==
    Return(Resolve("GetEndPoint", Arg(url.Protocol, "", -1), "endpoint", url.Protocol,
                   FALSE))

\* pName := url.GetParam(ProviderKey, ""); if pName == "" { if proxy != "" {
\* pName, _, _ = ParseExportInfo(proxy) } else { pName = "default" } }
ProviderName(provider, proxy) ==
    IF provider = ""
    THEN IF proxy # "" THEN ParseExportInfo(proxy) ELSE DefaultProvider
    ELSE provider

GetProvider(url) ==
    LET provider == GetParam(url, ProviderKey, "")
        proxy == GetParam(url, ProxyKey, "")
    IN Return(Resolve("GetProvider", Arg(provider, proxy, -1), "provider",
                      ProviderName(provider, proxy), FALSE))

GetServer(url) ==
    LET sname == IF url.Protocol = "" THEN DefaultServer ELSE url.Protocol
    IN Return(Resolve("GetServer", Arg(url.Protocol, "", -1), "server", sname, TRUE))

GetMessageHandler(name) ==
    Return(Resolve("GetMessageHandler", Arg(name, "", -1), "messageHandler",
                   TrimSpace(name), TRUE))

\* The key GetSerialization reads, "" when it reads none:
\* if name != "" { ...[strings.TrimSpace(name)] } else if id > -1 { ...[strconv.Itoa(id)] }
SerializationKey(name, id) ==
    IF name # "" THEN TrimSpace(name)
    ELSE IF id > -1 THEN Itoa(id) ELSE ""

GetSerialization(name, id) ==
    IF name # "" \/ id > -1
    THEN Return(Resolve("GetSerialization", Arg(name, "", id), "serialization",
                        SerializationKey(name, id), FALSE))
    ELSE Return([NoLookup EXCEPT !.fn = "GetSerialization", !.arg = Arg(name, "", id),
                                 !.role = "serialization"])

\* GetRegistry, run from its first line to its return with no other call between.
GetRegistry(url) ==
    LET key == GetIdentity(url)
        l == Resolve("GetRegistry", Arg(url.Protocol, "", -1), "registry", url.Protocol,
                     TRUE)
    IN IF facRegistries[key].exist
       THEN Return([l EXCEPT !.invoked = FALSE, !.ctor = NoFactory, !.inited = FALSE,
                             !.panic = FALSE, !.result = facRegistries[key].registry])
       ELSE IF Found("registry", url.Protocol)
       THEN /\ lookup = NoLookup
            /\ lookup' = l
            /\ facRegistries' = [facRegistries EXCEPT ![key] =
                                    [exist |-> TRUE, registry |-> l.result]]
            /\ UNCHANGED <<factories, facRegs, regLog, idLog>>
            /\ UNCHANGED <<regVars, attVars, sentVars, chainVars, deserVars, availVars, delegVars, cloneVars, ctxVars>>
       ELSE Return(l)

\* The caller has taken what the lookup returned; the next call can be made.
TakeResult ==
    /\ lookup # NoLookup
    /\ lookup' = NoLookup
    /\ UNCHANGED <<factories, facRegistries, facRegs, regLog, idLog>>
    /\ UNCHANGED <<regVars, attVars, sentVars, chainVars, deserVars, availVars, delegVars, cloneVars, ctxVars>>

FacNext ==
    \/ \E role \in FacRoles \ {"serialization"} : \E name \in RegNames(role) :
          RegistExt(role, name, facRegs + 1)
    \/ \E name \in RegNames("serialization"), id \in SerIds :
          RegistryExtSerialization(name, id, facRegs + 1)
    \/ \E url \in FacURLs : GetHa(url)
    \/ \E url \in FacURLs : GetLB(url)
    \/ \E name \in FacNames : GetFilter(name)
    \/ \E url \in FacURLs : GetRegistry(url)
    \/ \E url \in FacURLs : GetEndPoint(url)
    \/ \E url \in FacURLs : GetProvider(url)
    \/ \E url \in FacURLs : GetServer(url)
    \/ \E name \in FacNames : GetMessageHandler(name)
    \/ \E name \in FacNames \cup {""}, id \in SerIds : GetSerialization(name, id)
    \/ TakeResult

(***************************************************************************)
(* FilterEndPoint.Call, lastEndPointFilter.Filter and                      *)
(* lastClusterFilter.Filter, each called twice with the same collaborators *)
(* on requests of the same contents: once with a tracing handle in the     *)
(* request's RPCContext, once without.                                     *)
(***************************************************************************)
Runs == {"traced", "untraced"}

Entries == {"FilterEndPoint.Call", "lastEndPointFilter.Filter",
            "lastClusterFilter.Filter"}

\* The head filter of a FilterEndPoint: the endpoint sentinel, or a filter of
\* the configuration, which is a collaborator of the call.
Heads == {"lastEndPointFilter", "configured"}

NoCalls == [r \in Runs |-> <<>>]

DelegInit ==
    /\ dEntry \in Entries
    /\ dHead \in Heads
    /\ dEntry # "FilterEndPoint.Call" => dHead = "lastEndPointFilter"
    /\ dCollab \in Responses
    /\ dpc = [r \in Runs |-> "start"]
    /\ dctx \in {c \in [Runs -> {"absent", "noTc", "tc"}] :
                    c["traced"] = "tc" /\ c["untraced"] # "tc"}
    /\ dspans = NoCalls
    /\ dcalls = NoCalls
    /\ dgot = [r \in Runs |-> NoResponse]
    /\ drets = NoCalls
    /\ dres = [r \in Runs |-> NoResponse]

\* The delegation group at rest.
DelegOff ==
    /\ DelegInit
    /\ dEntry = "FilterEndPoint.Call"
    /\ dHead = "lastEndPointFilter"
    /\ dCollab = "value"
    /\ dctx["untraced"] = "absent"

\* A mutant of the three methods: the delegation is made in the branch without
\* a tracing handle only.
DelegatesUntracedOnly(ctx) == GetRPCContext(ctx, TRUE) # "tc"

\* The delegation stands after the if, not inside it: it is made either way.
Delegates(ctx) == TRUE

\* A mutant of the returns: a failure response stands in for the callee's.
FailureSubstituted(resp) == "exception"

\* return f.Filter.Filter(...), return caller.Call(request),
\* return haStrategy.Call(request, loadBalance): what the callee returned.
Returned(resp) == resp

\* The method of stage, at position from, checks the tracing handle, puts its
\* span on it when there is one, and calls callee with args.
Stage(r, from, span, callee, args, to) ==
    /\ dpc[r] = from
    /\ dctx' = [dctx EXCEPT ![r] = GetRPCContext(@, TRUE)]
    /\ dspans' = [dspans EXCEPT ![r] = PutReqSpan(dctx[r], @, span)]
    /\ IF Delegates(dctx[r])
       THEN /\ dcalls' = [dcalls EXCEPT ![r] = Append(@, [callee |-> callee, args |-> args])]
            /\ dpc' = [dpc EXCEPT ![r] = to]
       ELSE /\ dpc' = [dpc EXCEPT ![r] = "ret:" \o from]
            /\ UNCHANGED dcalls
    /\ UNCHANGED <<dEntry, dHead, dCollab, dgot, drets, dres>>
    /\ UNCHANGED <<regVars, attVars, sentVars, chainVars, deserVars, availVars, facVars, cloneVars, ctxVars>>

\* func (f *FilterEndPoint) Call(request Request) Response, up to the call of the head filter.
FilterEndPoint_Call(r) ==
    /\ dEntry = "FilterEndPoint.Call"
    /\ Stage(r, "start", "EpFilterStart", "f.Filter.Filter", <<"f.Caller", "request">>,
             IF dHead = "lastEndPointFilter" THEN "lef" ELSE "head")

\* func (l *lastEndPointFilter) Filter(caller Caller, request Request) Response,
\* up to the call of caller.Call: called itself, or as the head of the FilterEndPoint.
lastEndPointFilter_Filter(r) ==
    \/ /\ dEntry = "lastEndPointFilter.Filter"
       /\ Stage(r, "start", "EpFilterEnd", "caller.Call", <<"request">>, "caller")
    \/ /\ dEntry = "FilterEndPoint.Call"
       /\ Stage(r, "lef", "EpFilterEnd", "caller.Call", <<"request">>, "caller")

\* func (l *lastClusterFilter) Filter(haStrategy, loadBalance, request) Response,
\* up to the call of haStrategy.Call.
lastClusterFilter_Filter(r) ==
    /\ dEntry = "lastClusterFilter.Filter"
    /\ Stage(r, "start", "ClustFliter", "haStrategy.Call", <<"request", "loadBalance">>,
             "ha")

\* The collaborator called (a configured head filter, the Caller, the
\* HaStrategy) gives its Response for the request.
Collaborator(r) ==
    /\ dpc[r] \in {"head", "caller", "ha"}
    /\ dgot' = [dgot EXCEPT ![r] = dCollab]
    /\ dpc' = [dpc EXCEPT ![r] = CASE dpc[r] = "head" -> "ret:start"
                                   [] dpc[r] = "ha" -> "ret:start"
                                   [] dpc[r] = "caller" ->
                                        IF dEntry = "FilterEndPoint.Call"
                                        THEN "ret:lef" ELSE "ret:start"]
    /\ UNCHANGED <<dEntry, dHead, dCollab, dctx, dspans, dcalls, drets, dres>>
    /\ UNCHANGED <<regVars, attVars, sentVars, chainVars, deserVars, availVars, facVars, cloneVars, ctxVars>>

\* A method returns: the sentinel to the FilterEndPoint whose head it is, the
\* method that was called to its caller.
StageReturn(r) ==
    /\ dpc[r] \in {"ret:lef", "ret:start"}
    /\ LET gave == Returned(dgot[r])
       IN /\ drets' = [drets EXCEPT ![r] = Append(@, [got |-> dgot[r], gave |-> gave])]
          /\ dgot' = [dgot EXCEPT ![r] = gave]
          /\ IF dpc[r] = "ret:lef"
             THEN /\ dpc' = [dpc EXCEPT ![r] = "ret:start"]
                  /\ UNCHANGED dres
             ELSE /\ dpc' = [dpc EXCEPT ![r] = "done"]
                  /\ dres' = [dres EXCEPT ![r] = gave]
    /\ UNCHANGED <<dEntry, dHead, dCollab, dctx, dspans, dcalls>>
    /\ UNCHANGED <<regVars, attVars, sentVars, chainVars, deserVars, availVars, facVars, cloneVars, ctxVars>>

DelegNext ==
    \/ \E r \in Runs : FilterEndPoint_Call(r)
    \/ \E r \in Runs : lastEndPointFilter_Filter(r)
    \/ \E r \in Runs : lastClusterFilter_Filter(r)
    \/ \E r \in Runs : Collaborator(r)
    \/ \E r \in Runs : StageReturn(r)

(***************************************************************************)
(* MotanRequest.Clone: the request with all its fields.  Objects live in   *)
(* heaps and are named by their position; 0 is nil.                        *)
(***************************************************************************)
NilContext == 0
NilMessage == 0
NilPointer == 0

\* The fields of an RPCContext that Clone copies by value.
ScalarFields == {"ExtFactory", "Oneway", "Proxy", "GzipSize", "SerializeNum",
                 "Serialized", "AsyncCall"}

\* Their values: all zero, all set, or one of them set.
ScalarChoices ==
    {[f \in ScalarFields |-> 0], [f \in ScalarFields |-> 1]}
    \cup {[f \in ScalarFields |-> IF f = g THEN 1 ELSE 0] : g \in ScalarFields}

\* An original message: whether it implements Cloneable, and the message it
\* is the Clone() of (0 for one that was not cloned).
Message(cloneable, of) == [cloneable |-> cloneable, copyOf |-> of]

RPCContext(scalars, asyncResult, reply, tc, msg) ==
    [scalars |-> scalars, Result |-> asyncResult, Reply |-> reply, Tc |-> tc,
     OriginalMessage |-> msg]

\* The zero RPCContext: &RPCContext{}.
ZeroRPCContext ==
    RPCContext([f \in ScalarFields |-> 0], NilPointer, NilPointer, NilPointer,
               NilMessage)

MotanRequest(att, ctx) ==
    [RequestID |-> 1, ServiceName |-> "s", Method |-> "m", MethodDesc |-> "d",
     Arguments |-> <<1>>, Attachment |-> att, RPCContext |-> ctx]

\* A request as its holder built it: with or without attachments, with or
\* without an RPCContext, whose original message is nil, Cloneable or not.
CloneInit ==
    /\ \E att \in {NilMap, 1}, ctx \in {NilContext, 1} :
          creqs = <<MotanRequest(att, ctx)>>
    /\ cmaps \in {<<>>, <<[k \in AttKeys |-> IF k = "a" THEN 1 ELSE NoValue]>>}
    /\ Len(cmaps) = creqs[1].Attachment
    /\ cmsgs \in {<<>>, <<Message(TRUE, NilMessage)>>, <<Message(FALSE, NilMessage)>>}
    /\ \/ /\ creqs[1].RPCContext = NilContext
          /\ cctxs = <<>>
          /\ cmsgs = <<>>
       \/ /\ creqs[1].RPCContext # NilContext
          /\ \E sc \in ScalarChoices, asyncResult, reply, tc \in {NilPointer, 1} :
                cctxs = <<RPCContext(sc, asyncResult, reply, tc, Len(cmsgs))>>

\* The clone group at rest.
CloneOff ==
    /\ creqs = <<MotanRequest(NilMap, NilContext)>>
    /\ cctxs = <<>>
    /\ cmsgs = <<>>
    /\ cmaps = <<>>

\* if oldMessage, ok := m.RPCContext.OriginalMessage.(Cloneable); ok {
\*     newRequest.RPCContext.OriginalMessage = oldMessage.Clone()
\* } else { newRequest.RPCContext.OriginalMessage = oldMessage }
\* oldMessage is the result of the type assertion: in the else branch, where
\* the assertion failed, it is the zero value of Cloneable, nil.
CloneOriginalMessage(msg) ==
    IF cmsgs[msg].cloneable
    THEN [ref |-> Len(cmsgs) + 1, heap |-> Append(cmsgs, Message(TRUE, msg))]
    ELSE [ref |-> NilMessage, heap |-> cmsgs]

\* func (m *MotanRequest) Clone() interface{}
MotanRequest_Clone ==
    /\ Len(creqs) = 1
    /\ LET m == creqs[1]
           old == cctxs[m.RPCContext]
           att == IF m.Attachment # NilMap THEN Len(cmaps) + 1 ELSE NilMap
           copied == IF m.RPCContext # NilContext /\ old.OriginalMessage # NilMessage
                     THEN CloneOriginalMessage(old.OriginalMessage)
                     ELSE [ref |-> NilMessage, heap |-> cmsgs]
           ctx == IF m.RPCContext # NilContext THEN Len(cctxs) + 1 ELSE NilContext
           newRequest == [m EXCEPT !.Attachment = att, !.RPCContext = ctx]
       IN /\ cmaps' = IF m.Attachment # NilMap
                      THEN Append(cmaps, StringMapCopy(cmaps[m.Attachment]))
                      ELSE cmaps
          /\ cctxs' = IF m.RPCContext # NilContext
                      THEN Append(cctxs, RPCContext(old.scalars, old.Result, old.Reply,
                                                    old.Tc, copied.ref))
                      ELSE cctxs
          /\ cmsgs' = copied.heap
          /\ creqs' = Append(creqs, newRequest)
    /\ UNCHANGED <<regVars, attVars, sentVars, chainVars, deserVars, availVars, facVars, delegVars, ctxVars>>

CloneNext == MotanRequest_Clone

(***************************************************************************)
(* GetRPCContext of MotanRequest and of MotanResponse (the same code),     *)
(* called by several goroutines on one owner.  No lock is taken: the test  *)
(* of m.RPCContext, the assignment and the return's read are three steps.  *)
(***************************************************************************)
MaxCtxCalls == 3

CtxOwners == {"MotanRequest", "MotanResponse"}

\* The fields a holder of the context writes: the tracing handle, the async result.
WrittenFields == {"Tc", "Result"}

\* The owner as built: without a context, or with one its builder gave it.
CtxInit ==
    /\ gOwner \in CtxOwners
    /\ \/ gRPCContext = NilContext /\ gctxs = <<>>
       \/ gRPCContext = 1 /\ gctxs = <<ZeroRPCContext>>
    /\ gpc = [t \in Callers |-> "idle"]
    /\ gcan = [t \in Callers |-> FALSE]
    /\ gheld = [t \in Callers |-> NilContext]
    /\ greturned = {}
    /\ goverlapped = FALSE
    /\ gCalls = 0

\* The context group at rest.
CtxOff ==
    /\ CtxInit
    /\ gOwner = "MotanRequest"
    /\ gRPCContext = NilContext

\* A goroutine calls m.GetRPCContext(canCreate).
GetRPCContextCall(t, canCreate) ==
    /\ gpc[t] = "idle"
    /\ gCalls < MaxCtxCalls
    /\ gCalls' = gCalls + 1
    /\ gcan' = [gcan EXCEPT ![t] = canCreate]
    /\ gpc' = [gpc EXCEPT ![t] = "test"]
    /\ goverlapped' = (goverlapped \/ \E u \in Callers : gpc[u] # "idle")
    /\ UNCHANGED <<gOwner, gRPCContext, gctxs, gheld, greturned>>
    /\ UNCHANGED <<regVars, attVars, sentVars, chainVars, deserVars, availVars, facVars, delegVars, cloneVars>>

\* if m.RPCContext == nil && canCreate
GetRPCContextTest(t) ==
    /\ gpc[t] = "test"
    /\ gpc' = [gpc EXCEPT ![t] = IF gRPCContext = NilContext /\ gcan[t]
                                 THEN "new" ELSE "return"]
    /\ UNCHANGED <<gOwner, gRPCContext, gctxs, gcan, gheld, greturned, goverlapped, gCalls>>
    /\ UNCHANGED <<regVars, attVars, sentVars, chainVars, deserVars, availVars, facVars, delegVars, cloneVars>>

\* m.RPCContext = &RPCContext{}
GetRPCContextNew(t) ==
    /\ gpc[t] = "new"
    /\ gctxs' = Append(gctxs, ZeroRPCContext)
    /\ gRPCContext' = Len(gctxs) + 1
    /\ gpc' = [gpc EXCEPT ![t] = "return"]
    /\ UNCHANGED <<gOwner, gcan, gheld, greturned, goverlapped, gCalls>>
    /\ UNCHANGED <<regVars, attVars, sentVars, chainVars, deserVars, availVars, facVars, delegVars, cloneVars>>

\* return m.RPCContext
GetRPCContextReturn(t) ==
    /\ gpc[t] = "return"
    /\ gheld' = [gheld EXCEPT ![t] = gRPCContext]
    /\ greturned' = greturned \cup {[canCreate |-> gcan[t], ctx |-> gRPCContext]}
    /\ gpc' = [gpc EXCEPT ![t] = "idle"]
    /\ UNCHANGED <<gOwner, gRPCContext, gctxs, gcan, goverlapped, gCalls>>
    /\ UNCHANGED <<regVars, attVars, sentVars, chainVars, deserVars, availVars, facVars, delegVars, cloneVars>>

\* The caller writes a field through the context its call returned, as in
\* request.GetRPCContext(true).Tc = tc.
WriteThrough(t, field) ==
    /\ gpc[t] = "idle"
    /\ gheld[t] # NilContext
    /\ gctxs[gheld[t]][field] = NilPointer
    /\ gctxs' = [gctxs EXCEPT ![gheld[t]][field] = 1]
    /\ UNCHANGED <<gOwner, gRPCContext, gpc, gcan, gheld, greturned, goverlapped, gCalls>>
    /\ UNCHANGED <<regVars, attVars, sentVars, chainVars, deserVars, availVars, facVars, delegVars, cloneVars>>

CtxNext ==
    \/ \E t \in Callers, canCreate \in BOOLEAN : GetRPCContextCall(t, canCreate)
    \/ \E t \in Callers : GetRPCContextTest(t)
    \/ \E t \in Callers : GetRPCContextNew(t)
    \/ \E t \in Callers : GetRPCContextReturn(t)
    \/ \E t \in Callers, field \in WrittenFields : WriteThrough(t, field)

(***************************************************************************)
(* Specifications.                                                         *)
(***************************************************************************)
InitRegistry ==
    /\ RegInit /\ AttOff /\ SentOff /\ ChainOff /\ DeserOff
    /\ AvailOff /\ FacOff /\ DelegOff /\ CloneOff /\ CtxOff
SpecRegistry == InitRegistry /\ [][RegNext]_vars

InitAttachment ==
    /\ RegOff /\ AttInit /\ SentOff /\ ChainOff /\ DeserOff
    /\ AvailOff /\ FacOff /\ DelegOff /\ CloneOff /\ CtxOff
SpecAttachment == InitAttachment /\ [][AttNext]_vars

InitSentinel ==
    /\ RegOff /\ AttOff /\ SentInit /\ ChainOff /\ DeserOff
    /\ AvailOff /\ FacOff /\ DelegOff /\ CloneOff /\ CtxOff
SpecSentinel == InitSentinel /\ [][SentNext]_vars

InitChain ==
    /\ RegOff /\ AttOff /\ SentOff /\ ChainInit /\ DeserOff
    /\ AvailOff /\ FacOff /\ DelegOff /\ CloneOff /\ CtxOff
SpecChain == InitChain /\ [][ChainNext]_vars

InitDeserialize ==
    /\ RegOff /\ AttOff /\ SentOff /\ ChainOff /\ DeserInit
    /\ AvailOff /\ FacOff /\ DelegOff /\ CloneOff /\ CtxOff
SpecDeserialize == InitDeserialize /\ [][DeserNext]_vars

InitAvailable ==
    /\ RegOff /\ AttOff /\ SentOff /\ ChainOff /\ DeserOff
    /\ AvailInit /\ FacOff /\ DelegOff /\ CloneOff /\ CtxOff
SpecAvailable == InitAvailable /\ [][AvailNext]_vars

InitFactory ==
    /\ RegOff /\ AttOff /\ SentOff /\ ChainOff /\ DeserOff
    /\ AvailOff /\ FacInit /\ DelegOff /\ CloneOff /\ CtxOff
SpecFactory == InitFactory /\ [][FacNext]_vars

InitDelegation ==
    /\ RegOff /\ AttOff /\ SentOff /\ ChainOff /\ DeserOff
    /\ AvailOff /\ FacOff /\ DelegInit /\ CloneOff /\ CtxOff
SpecDelegation == InitDelegation /\ [][DelegNext]_vars

InitClone ==
    /\ RegOff /\ AttOff /\ SentOff /\ ChainOff /\ DeserOff
    /\ AvailOff /\ FacOff /\ DelegOff /\ CloneInit /\ CtxOff
SpecClone == InitClone /\ [][CloneNext]_vars

InitContext ==
    /\ RegOff /\ AttOff /\ SentOff /\ ChainOff /\ DeserOff
    /\ AvailOff /\ FacOff /\ DelegOff /\ CloneOff /\ CtxInit
SpecContext == InitContext /\ [][CtxNext]_vars

(***************************************************************************)
(* C1: on one initialized factory, with an instance-yielding constructor   *)
(* registered for the protocol, the constructor is invoked exactly once    *)
(* per identity and every GetRegistry call for that identity, concurrent   *)
(* or later, returns that one same instance (and so: returns at all, the   *)
(* process not having been aborted).                                       *)
(***************************************************************************)
C1_RegistrySingleton ==
    ~nilCtorSeen =>
    /\ ~crashed
    /\ \A k \in Identities :
         /\ ctorCalls[k] <= 1
         /\ Cardinality(returned[k]) <= 1
         /\ NilRegistry \notin returned[k]

\* The part of C1 the lock does guarantee: one constructor call per identity.
C1_CtorOnce == \A k \in Identities : registryFactories[k[1]] = "ctorOk" => ctorCalls[k] <= 1

(***************************************************************************)
(* C2: on a freshly constructed Request or Response, under any             *)
(* interleaving of GetAttachments calls the attachment map is created at   *)
(* most once, every call returns the same map, and that map is the one the *)
(* owner holds (so it was never replaced after being set).                 *)
(***************************************************************************)
C2_AttachmentsCreatedOnce ==
    \A o \in Owners :
        /\ created[o] <= 1
        /\ Cardinality(gotMaps[o]) <= 1
        /\ gotMaps[o] # {} => gotMaps[o] = {attachment[o]}

\* Two calls on a fresh Response both missed the fast path, and both have returned.
C2_Witness ==
    /\ ownerKind = "response"
    /\ slow[TheMessage] >= 2
    /\ \A t \in Writers : apc[t] = "idle"
    /\ created[TheMessage] = 1
    /\ Cardinality(gotMaps[TheMessage]) = 1

(***************************************************************************)
(* C3: once every SetAttachment call has returned, the map the message     *)
(* holds has, for each key that one call wrote, the value that call wrote: *)
(* no write went to a map that was created and then discarded.             *)
(***************************************************************************)
C3_NoWriteLost ==
    (\A t \in Writers : apc[t] = "idle") =>
        \A o \in Owners : \A k \in AttKeys : \A v \in setLog[o][k] :
            setLog[o][k] = {v} =>
                /\ attachment[o] # NilMap
                /\ Contents(attachment, maps, o)[k] = v

\* Two SetAttachment calls with distinct keys raced on a fresh Request: both
\* missed the fast path, both have returned.
C3_Witness ==
    /\ ownerKind = "request"
    /\ \A t \in Writers : apc[t] = "idle"
    /\ slow[TheMessage] = 2
    /\ \A k \in AttKeys : setLog[TheMessage][k] # {}

(***************************************************************************)
(* C4: Clone gives the clone a map of its own holding what the original    *)
(* holds at that moment, and from then on a SetAttachment on one message   *)
(* (the original or a clone) leaves the attachments of every other message *)
(* as they were.                                                           *)
(***************************************************************************)
C4_CloneIndependent ==
    [][/\ \A t \in Writers :
            (apc[t] = "store" /\ apc'[t] = "idle") =>
                \A o \in Owners :
                    o # aop[t].o =>
                        Contents(attachment', maps', o) = Contents(attachment, maps, o)
       /\ \A c \in Owners :
            (c > numOwners /\ c <= numOwners') =>
                /\ Contents(attachment', maps', c)
                     = Contents(attachment, maps, TheMessage)
                /\ attachment[TheMessage] # NilMap =>
                     attachment'[c] \notin {NilMap, attachment[TheMessage]}
      ]_vars

\* A Request with a pair under some key was cloned, and the clone then had
\* another value set under that key.
C4_Witness ==
    /\ numOwners >= 2
    /\ \E k \in AttKeys :
         /\ Contents(attachment, maps, TheMessage)[k] # NoValue
         /\ Contents(attachment, maps, 2)[k] # NoValue
         /\ Contents(attachment, maps, 2)[k] # Contents(attachment, maps, TheMessage)[k]

(***************************************************************************)
(* C5: SetNext on either terminal sentinel, with a filter or with nil,     *)
(* raises no fatal error and leaves the sentinel closed: HasNext() stays   *)
(* false and GetNext() stays absent.                                       *)
(***************************************************************************)
C5_SetNextRefused ==
    /\ ~panicked
    /\ \A k \in Kinds : ~HasNext(k) /\ GetNext(k) = NilFilter

\* What SetNext does keep: whenever it returns, the sentinel is still closed,
\* and called with a filter it logs and returns.
C5_ClosedWhenReturned ==
    /\ \A k \in Kinds : ~HasNext(k) /\ GetNext(k) = NilFilter
    /\ ~panicked => setNextLogged = setNextCalls

(***************************************************************************)
(* C6: each terminal sentinel is created exactly once: over any            *)
(* interleaving of GetLastEndPointFilter (GetLastClusterFilter, NewFilter) *)
(* calls at most one instance is created and every call returns it.        *)
(***************************************************************************)
C6_SentinelSingleton ==
    \A k \in Kinds :
        /\ sentCreated[k] <= 1
        /\ Cardinality(sgot[k]) <= 1

(***************************************************************************)
(* C7: one FilterEndPoint.Call on a chain assembled in ascending index     *)
(* order runs the logic of each configured filter exactly once, in         *)
(* ascending index order, then the sentinel (index 100, last), then the    *)
(* sentinel's delegation to Caller.Call, once.                             *)
(***************************************************************************)
C7_ChainOrder ==
    cpc = "done" =>
        LET n == Cardinality(configured)
        IN /\ Len(trace) = n + 2
           /\ \A i \in 1..n : trace[i].who = "filter" /\ trace[i].index \in configured
           /\ \A i, j \in 1..(n + 1) : i < j => trace[i].index < trace[j].index
           /\ trace[n + 1] = [who |-> "last", index |-> LastIndex]
           /\ trace[n + 2].who = "caller"
           /\ ~HasNext("ep")

\* A call through the chain [10, 20, sentinel] has returned.
C7_Witness ==
    /\ cpc = "done"
    /\ configured = {10, 20}
    /\ Len(trace) = 4

(***************************************************************************)
(* C8: a Request constructed with exactly one DeserializableValue as its   *)
(* arguments keeps that single wrapper as its arguments until a            *)
(* ProcessDeserializable call returns without error; from then on its      *)
(* arguments are the values decoded from the wrapper's body (for these     *)
(* codecs: the bytes after the count), and it is no longer pending.        *)
(***************************************************************************)
C8_PendingUntilDeserialized ==
    Pending(origArguments) =>
        IF succeeded
        THEN LET body == origArguments.elems[1].body
             IN /\ ~arguments.isNil
                /\ Len(arguments.elems) = Len(body) - 1
                /\ \A i \in 1..(Len(body) - 1) : arguments.elems[i] = Value(body[i + 1])
                /\ ~Pending(arguments)
        ELSE arguments = origArguments /\ Pending(arguments)

\* A first call failed (no target types), a second one decoded two values.
C8_Witness ==
    /\ Pending(origArguments)
    /\ deserCalls = 2
    /\ succeeded
    /\ before = origArguments
    /\ Len(arguments.elems) = 2

(***************************************************************************)
(* C9: ProcessDeserializable on a pending Request whose value has no       *)
(* Serialization, or whose Serialization reports a failure, returns an     *)
(* error (never nil) and leaves the arguments as they were: the single     *)
(* pending DeserializableValue.                                            *)
(***************************************************************************)
C9_FailurePropagates ==
    (lastErr # NotCalled /\ Pending(before)) =>
        LET d == before.elems[1]
        IN /\ d.ser = NilSerialization =>
                lastErr = ErrNilSerialization /\ arguments = before
           /\ (d.ser # NilSerialization
               /\ SerializationDeSerializeMulti(d.ser, d.body, lastTypes).err # NoError) =>
                /\ lastErr = SerializationDeSerializeMulti(d.ser, d.body, lastTypes).err
                /\ arguments = before

\* Both failures have happened: a nil Serialization, and a malformed body.
C9_Witness ==
    /\ Pending(before)
    /\ lastErr \in {ErrNilSerialization, ErrMalformed}
    /\ arguments = before
    /\ deserCalls = 2

(***************************************************************************)
(* C10: FilterEndPoint.IsAvailable returns the conjunction of every        *)
(* auxiliary Status check and the Caller's availability, for every list of *)
(* checks (nil and empty included, where it is the Caller's availability); *)
(* a scan in the other direction gives the same; one unavailable check     *)
(* makes it false whatever the Caller reports.                             *)
(***************************************************************************)
C10_AvailabilityIsConjunction ==
    availCalled =>
        LET e == statusFilters.elems
            n == Len(e)
            \* the first unavailable check met scanning forward (n + 1 if none)
            firstDown == CHOOSE i \in 1..(n + 1) :
                            /\ i <= n => ~e[i]
                            /\ \A j \in 1..(i - 1) : e[j]
        IN /\ availResult = ((\A i \in 1..n : e[i]) /\ callerAvailable)
           /\ availResult = (IF firstDown <= n THEN FALSE ELSE callerAvailable)
           /\ (\E i \in 1..n : ~e[i]) => ~availResult

\* Two checks, only the first one unavailable, the Caller available: unavailable.
C10_Witness ==
    /\ availCalled
    /\ statusFilters.elems = <<FALSE, TRUE>>
    /\ callerAvailable
    /\ ~availResult

(***************************************************************************)
(* C11: for every role, after any sequence of RegistExt* calls, what       *)
(* resolves under a name (a name a lookup can ask for: one its lookup      *)
(* reads as it is) is the constructor of the most recent registration      *)
(* under that name for that role, and nothing when there was none: so a    *)
(* registration under one role or name changes nothing that resolves under *)
(* another.                                                                *)
(***************************************************************************)
C11_LastRegistrationResolves ==
    \A role \in FacRoles : \A n \in RegNames(role) :
        LookupKey(role, n) = n =>
            factories[role][LookupKey(role, n)] = regLog[role][n]

\* What the registrations do keep: a RegistExt* call writes its constructor
\* under the keys it is given (for a serialization: the name and the text of
\* the id) and leaves every other key of every role as it was.
C11_OverwritePerKey ==
    [][facRegs' = facRegs + 1 =>
         \A r \in FacRoles : \A k \in FacKeys :
             /\ regLog'[r][k] # regLog[r][k] => factories'[r][k] = facRegs'
             /\ factories'[r][k] # factories[r][k] =>
                  /\ factories'[r][k] = facRegs'
                  /\ \/ regLog'[r][k] # regLog[r][k]
                     \/ /\ r = "serialization"
                        /\ \E i \in SerIds : k = Itoa(i) /\ idLog'[i] = facRegs'
      ]_vars

(***************************************************************************)
(* C12: a lookup (GetHa, GetLB, GetFilter, GetRegistry, GetEndPoint,       *)
(* GetProvider, GetServer, GetMessageHandler, GetSerialization) whose      *)
(* resolved name has no registered constructor returns nil, does not       *)
(* panic, and leaves every mapping of the factory, the registry singleton  *)
(* cache included, as it was.                                              *)
(***************************************************************************)
C12_MissReturnsAbsent ==
    [][(/\ lookup' # lookup
        /\ lookup'.fn # "none"
        /\ factories[lookup'.role][lookup'.name] = NoFactory) =>
           /\ lookup'.result = NilExt
           /\ ~lookup'.invoked
           /\ ~lookup'.panic
           /\ factories' = factories
           /\ facRegistries' = facRegistries
      ]_vars

\* GetRegistry found no constructor under the URL's protocol while the registry
\* role has one under another name: it returned nil and cached nothing.
C12_Witness ==
    /\ lookup.fn = "GetRegistry"
    /\ lookup.result = NilExt
    /\ \E n \in RegNames("registry") : factories["registry"][n] # NoFactory
    /\ \A k \in FacIdentities : ~facRegistries[k].exist

C14_SerializationByNameOrId ==
    lookup.fn = "GetSerialization" =>
        LET name == lookup.arg.a
            id == lookup.arg.id
        IN IF name # ""
           THEN lookup.result = regLog["serialization"][TrimSpace(name)]
           ELSE IF id > -1
           THEN lookup.result = idLog[id]
           ELSE lookup.result = NilExt

(***************************************************************************)
(* C15: for the same request contents and the same collaborators,          *)
(* FilterEndPoint.Call, lastEndPointFilter.Filter and                      *)
(* lastClusterFilter.Filter make the same delegations (same callee, same   *)
(* arguments, each exactly once) and return the same Response whether or   *)
(* not the request carries a tracing handle; a handle only adds spans, one *)
(* per method, and without one no span is recorded.                        *)
(***************************************************************************)
C15_TracingDoesNotAlterCall ==
    (\A r \in Runs : dpc[r] = "done") =>
        /\ dcalls["traced"] = dcalls["untraced"]
        /\ dres["traced"] = dres["untraced"]
        /\ \A r \in Runs :
             /\ Len(dcalls[r]) >= 1
             /\ \A i, j \in 1..Len(dcalls[r]) :
                    i # j => dcalls[r][i].callee # dcalls[r][j].callee
        /\ dspans["untraced"] = <<>>
        /\ Len(dspans["traced"]) = Len(dcalls["traced"])

\* Both calls of lastClusterFilter.Filter have returned: the one on the request
\* with a handle put its span, the one on a request with no RPCContext put none.
C15_Witness ==
    /\ dEntry = "lastClusterFilter.Filter"
    /\ \A r \in Runs : dpc[r] = "done"
    /\ dspans["traced"] = <<"ClustFliter">>
    /\ dspans["untraced"] = <<>>
    /\ dres["untraced"] = "exception"

(***************************************************************************)
(* C16: FilterEndPoint.Call calls the head filter's Filter exactly once    *)
(* and returns exactly the Response that call produced, and each terminal  *)
(* sentinel returns exactly the Response of its single delegation          *)
(* (caller.Call, haStrategy.Call): no method puts a Response of its own,   *)
(* a failure response included, in its place.                              *)
(***************************************************************************)
C16_ReturnsTheDelegationsResponse ==
    \A r \in Runs :
        /\ \A i \in 1..Len(drets[r]) : drets[r][i].gave = drets[r][i].got
        /\ Len(drets[r]) <= Len(dcalls[r])
        /\ dpc[r] = "done" =>
             /\ dres[r] = dCollab
             /\ Len(drets[r]) = Len(dcalls[r])
             /\ Len(dcalls[r]) = IF dEntry = "FilterEndPoint.Call"
                                    /\ dHead = "lastEndPointFilter"
                                 THEN 2 ELSE 1
             /\ dcalls[r][1].callee =
                  CASE dEntry = "FilterEndPoint.Call" -> "f.Filter.Filter"
                    [] dEntry = "lastEndPointFilter.Filter" -> "caller.Call"
                    [] dEntry = "lastClusterFilter.Filter" -> "haStrategy.Call"

\* FilterEndPoint.Call, with the endpoint sentinel as its head filter, has
\* returned the value Response that Caller.Call produced.
C16_Witness ==
    /\ dEntry = "FilterEndPoint.Call"
    /\ dHead = "lastEndPointFilter"
    /\ dCollab = "value"
    /\ dpc["traced"] = "done"
    /\ Len(drets["traced"]) = 2
    /\ dres["traced"] = "value"

(***************************************************************************)
(* C17: Clone of a Request that has an RPCContext gives the clone an       *)
(* RPCContext object of its own with equal scalar fields, whose Result and *)
(* Reply are the same references as the original's, and whose original     *)
(* message is the Clone() of the original's when that one is Cloneable and *)
(* the same reference otherwise; a Request without an RPCContext clones to *)
(* one without.                                                            *)
(***************************************************************************)
C17_CloneRPCContext ==
    Len(creqs) = 2 =>
        LET m == creqs[1]
            c == creqs[2]
        IN IF m.RPCContext = NilContext
           THEN c.RPCContext = NilContext
           ELSE LET old == cctxs[m.RPCContext]
                    new == cctxs[c.RPCContext]
                IN /\ c.RPCContext \notin {NilContext, m.RPCContext}
                   /\ new.scalars = old.scalars
                   /\ new.Result = old.Result
                   /\ new.Reply = old.Reply
                   /\ IF old.OriginalMessage = NilMessage
                      THEN new.OriginalMessage = NilMessage
                      ELSE IF cmsgs[old.OriginalMessage].cloneable
                      THEN /\ new.OriginalMessage \notin {NilMessage, old.OriginalMessage}
                           /\ cmsgs[new.OriginalMessage].copyOf = old.OriginalMessage
                      ELSE new.OriginalMessage = old.OriginalMessage

\* What Clone does keep: everything of C17 but the original message of a
\* context whose message is not Cloneable (and the tracing handle is shared).
C17_CloneRPCContextButMessage ==
    Len(creqs) = 2 =>
        LET m == creqs[1]
            c == creqs[2]
        IN IF m.RPCContext = NilContext
           THEN c.RPCContext = NilContext
           ELSE LET old == cctxs[m.RPCContext]
                    new == cctxs[c.RPCContext]
                IN /\ c.RPCContext \notin {NilContext, m.RPCContext}
                   /\ new.scalars = old.scalars
                   /\ new.Result = old.Result
                   /\ new.Reply = old.Reply
                   /\ new.Tc = old.Tc
                   /\ (old.OriginalMessage # NilMessage
                       /\ cmsgs[old.OriginalMessage].cloneable) =>
                        cmsgs[new.OriginalMessage].copyOf = old.OriginalMessage
                   /\ (old.OriginalMessage # NilMessage
                       /\ ~cmsgs[old.OriginalMessage].cloneable) =>
                        new.OriginalMessage = NilMessage

(***************************************************************************)
(* C18: in GetRegistry the Initialize hook of a newly constructed Registry *)
(* has completed before the instance is stored in the singleton cache: in  *)
(* every interleaving a cached instance, and an instance a call returns    *)
(* (by the lock-free path or the locked one), has had its Initialize run,  *)
(* and Initialize is run once on an instance, never again.                 *)
(***************************************************************************)
C18_InitializedBeforeStored ==
    [][/\ \A k \in Identities :
            (registries'[k].exist /\ registries'[k].registry # NilRegistry) =>
                instances'[registries'[k].registry].inited
       /\ \A t \in Callers :
            (rpc'[t] = "done" /\ rret'[t] # NilRegistry) => instances'[rret'[t]].inited
       /\ \A t \in Callers :
            (rpc[t] = "init" /\ rpc'[t] = "store" /\ rreg[t] # NilRegistry) =>
                /\ ~instances[rreg[t]].inited
                /\ instances'[rreg[t]].inited
       /\ \A i \in 1..Len(instances) : instances[i].inited => instances'[i].inited
      ]_vars

\* A caller received the instance by the lock-free path while the caller that
\* constructed it was still in the middle of storing it.
C18_Witness ==
    \E t, u \in Callers :
        /\ t # u
        /\ mapWriting = u
        /\ rpc[t] = "done"
        /\ rret[t] # NilRegistry
        /\ rret[t] = rreg[u]

(***************************************************************************)
(* C19: a GetRegistry call for an identity that is in the singleton cache  *)
(* returns the cached instance without acquiring newRegistryLock, and so   *)
(* completes even while another caller holds the lock constructing a       *)
(* Registry for another identity; and the lock is released on every exit   *)
(* of the miss path: only a caller inside the locked section holds it.     *)
(***************************************************************************)
C19_HitPathLockFree ==
    [][/\ \A t \in Callers :
            (rpc[t] = "fast" /\ registries[GetIdentity(rurl[t])].exist) =>
                /\ crashed' = crashed
                /\ rpc'[t] # "fast" =>
                     /\ rpc'[t] = "done"
                     /\ rret'[t] = registries[GetIdentity(rurl[t])].registry
                     /\ newRegistryLock' = newRegistryLock
       /\ \A t \in Callers :
            newRegistryLock' = t =>
                rpc'[t] \in {"check", "new", "init", "store", "store2", "unlock"}
      ]_vars

\* What the code does keep of C19: the lock is held only by a caller inside
\* the locked section, and a call that has not been aborted and finds its
\* identity in the cache returns without touching the lock.
C19_LockReleased ==
    [][/\ \A t \in Callers :
            newRegistryLock' = t =>
                rpc'[t] \in {"check", "new", "init", "store", "store2", "unlock"}
       /\ \A t \in Callers :
            (rpc[t] = "fast" /\ rpc'[t] = "done") => newRegistryLock' = newRegistryLock
      ]_vars

(***************************************************************************)
(* C20: the registry singleton cache never holds an absent entry (a        *)
(* GetRegistry call that returns nil, for want of a constructor or because *)
(* the constructor yielded no instance, stores nothing), and an entry once *)
(* stored is never removed or replaced.                                    *)
(***************************************************************************)
C20_CacheHoldsNoAbsentEntry ==
    [][/\ \A k \in Identities :
            registries'[k].exist => registries'[k].registry # NilRegistry
       /\ \A k \in Identities :
            registries[k].exist => registries'[k] = registries[k]
      ]_vars

\* What the code does keep of C20: an entry once stored is never removed or
\* replaced, and a call that finds no constructor stores nothing.
C20_EntriesNeverReplaced ==
    [][/\ \A k \in Identities :
            registries[k].exist => registries'[k] = registries[k]
       /\ \A k \in Identities :
            (registries'[k].exist /\ ~registries[k].exist) =>
                registryFactories[k[1]] # NoCtor
      ]_vars

(***************************************************************************)
(* C21: GetRPCContext creates the owner's RPC Context at most once: a call *)
(* with canCreate false never creates one and returns absent while none    *)
(* exists, and every call with canCreate true on one owner, in whatever    *)
(* interleaving, returns the same context instance, so that no field       *)
(* written through a returned context is lost to a replacing context.      *)
(***************************************************************************)
C21_ContextCreatedOnce ==
    /\ \A a, b \in greturned :
          a.canCreate /\ b.canCreate => a.ctx # NilContext /\ a.ctx = b.ctx
    /\ \A c \in 1..Len(gctxs) : gctxs[c] # ZeroRPCContext => gRPCContext = c

\* The part about canCreate false, which holds: such a call never reaches the
\* assignment, and while the owner has no context every call has returned absent.
C21_FalseNeverCreates ==
    /\ \A t \in Callers : gpc[t] = "new" => gcan[t]
    /\ gRPCContext = NilContext => \A r \in greturned : r.ctx = NilContext

\* The same for calls made one after another, which holds: they all return one
\* instance, and it keeps what was written through it.
C21_OnceWhenNotOverlapping ==
    ~goverlapped =>
        /\ \A a, b \in greturned :
              a.canCreate /\ b.canCreate => a.ctx # NilContext /\ a.ctx = b.ctx
        /\ \A c \in 1..Len(gctxs) : gctxs[c] # ZeroRPCContext => gRPCContext = c

(***************************************************************************)
(* C22: registering a serialization under (name, id) changes what          *)
(* GetSerialization resolves for that name and that id only: a             *)
(* serialization registered before under another name n is still the one   *)
(* GetSerialization(n, any id) resolves, also when n is the decimal text   *)
(* of the id now registered.                                               *)
(***************************************************************************)
C22_SerializationRegistrationFrame ==
    [][\A name \in RegNames("serialization") : \A id \in SerIds :
         /\ regLog'["serialization"][name] # regLog["serialization"][name]
         /\ idLog'[id] # idLog[id]
         => \A n \in RegNames("serialization") \ {name} : \A i \in SerIds :
               regLog["serialization"][n] # NoFactory =>
                   factories'["serialization"][SerializationKey(n, i)]
                       = factories["serialization"][SerializationKey(n, i)]
      ]_vars

\* The frame that does hold: the names other than the registered name and
\* other than the decimal text of the registered id resolve as before.
C22_FrameButIdText ==
    [][\A name \in RegNames("serialization") : \A id \in SerIds :
         /\ regLog'["serialization"][name] # regLog["serialization"][name]
         /\ idLog'[id] # idLog[id]
         => \A n \in FacNames \ {name, Itoa(id)} : \A i \in SerIds :
               TrimSpace(n) = n =>
                   factories'["serialization"][SerializationKey(n, i)]
                       = factories["serialization"][SerializationKey(n, i)]
      ]_vars

(***************************************************************************)
(* C23: when the request carries no tracing handle, FilterEndPoint.Call    *)
(* and both terminal sentinels record no span and hand the request on with *)
(* its observable state unchanged: a request that had no RPC Context       *)
(* before the call still has none when the next stage receives it.         *)
(***************************************************************************)
C23_NoContextStaysAbsent ==
    [][\A r \in Runs : dctx[r] = "absent" => dctx'[r] = "absent"]_vars

\* What does hold without a tracing handle: no span is recorded, and a
\* context that exists is handed on as it is.
C23_NoSpanWithoutHandle ==
    \A r \in Runs : dctx[r] # "tc" => dspans[r] = <<>>

C23_ExistingContextUnchanged ==
    [][\A r \in Runs : dctx[r] # "absent" => dctx'[r] = dctx[r]]_vars

====
